---- MODULE Spec2Model ----
(***************************************************************************)
(* A model of the ROOMii backend: the emotion cache and smoothing window   *)
(* of emotion_detector.py, the background monitors started by app.py and   *)
(* websocket_handler.py, and the conversational turn of handle_message.    *)
(*                                                                         *)
(* Confidences are exact rationals.  A confidence c is held as the integer *)
(* c * 100 * Scale, where Scale = 25 * lcm(1..8): the mean of up to 8      *)
(* window entries and the weighted sums of combine_emotions are then       *)
(* integers too.  Python's float rounding is not modelled.                 *)
(***************************************************************************)
EXTENDS Integers, Sequences, FiniteSets, TLC

VARIABLES
    now,              \* time.time(), in seconds
    emotion_cache,    \* emotion_detector._emotion_cache
    cache_lock,       \* emotion_detector._cache_lock: the holder, or Free
    recent_emotions,  \* emotion_detector.recent_emotions, deque(maxlen=8)
    iterDirty,        \* per thread: its deque iterator saw the deque mutated
    pc,               \* per thread: the statement it is at
    args,             \* per thread: the arguments of its detect_emotion_sync call
    loc,              \* per thread: the locals of its call
    result,           \* per thread: what its last call returned or raised
    frames,           \* the classifier outputs the camera can produce
    calls,            \* number of detect_emotion_sync calls begun
    callLimit,        \* how many calls this run explores
    history,          \* every sample appended to recent_emotions, in order
    cacheWrites,      \* number of writes of _emotion_cache so far
    written,          \* every entry _emotion_cache has held
    callLog,          \* the client thread's finished calls with bypass_cache=False
    app_monitor,      \* app.emotion_monitor: a monitor, or None before import
    ws_monitor,       \* websocket_handler.emotion_monitor: a monitor, or None
    monitors,         \* the BackgroundEmotionMonitor objects: running, thread
    loopOf,           \* per thread: the monitor whose _monitor_loop it runs
    connected,        \* the socket sessions (sids) that are connected
    user_sessions,    \* websocket_handler.user_sessions: sid -> user id
    processing_flags, \* websocket_handler.processing_flags: sid -> flag
    current_mood_state, \* mood_manager.current_mood_state
    turn,             \* per handler thread: the locals of its handle_message
    rest,             \* per REST thread: the locals of its get_roomie_response
    conversations,    \* rows of the conversations table, oldest first
    emotion_history,  \* rows of the emotion_history table, oldest first
    outbox,           \* the socket events emitted to clients
    turns,            \* number of turns begun
    applied,          \* the last direct call of a function: name, inputs, output
    emotion_calibration \* the rows of table emotion_calibration, in insertion order

detectorVars == <<now, emotion_cache, cache_lock, recent_emotions, iterDirty,
                  pc, args, loc, result, frames, calls, callLimit, history,
                  cacheWrites, written, callLog>>

monitorVars == <<app_monitor, ws_monitor, monitors, loopOf>>

turnVars == <<connected, user_sessions, processing_flags, current_mood_state,
              turn, rest, conversations, emotion_history, outbox, turns>>

vars == <<detectorVars, monitorVars, turnVars, applied, emotion_calibration>>

-----------------------------------------------------------------------------
(* Program constants *)

WindowMax == 8
Scale == 21000
EMOTION_CACHE_TTL == 8
ThresholdPct == 70
MatchPct == 70
BiasLimitPct == 80
BiasMarginPct == 15
CONVERSATION_CONTEXT_LENGTH == 50

Pct(p) == p * Scale
CONFIDENCE_THRESHOLD == Pct(ThresholdPct)

(* Bounds of the model *)

MaxCalls == 2
MaxTicks == 8
MaxSamples == 9
MaxTurns == 2
FaceCalls == 1

Free == "free"
None == "none"

Samplers == {"S1", "S2"}
Readers == {"R1"}
Clients == {"K1"}
LoopPool == <<"L1", "L2", "L3">>
LoopThreads == {LoopPool[i] : i \in 1..Len(LoopPool)}
Handlers == {"H1", "H2"}
TurnPool == <<"T1", "T2">>
AudioPool == <<"A1", "A2">>
TurnThreads == {TurnPool[i] : i \in 1..Len(TurnPool)}
AudioOf == [T \in TurnThreads |->
              AudioPool[CHOOSE i \in 1..Len(TurnPool) : TurnPool[i] = T]]
AudioThreads == {AudioOf[T] : T \in TurnThreads}
RestThreads == {"G1"}
Threads == Samplers \cup Readers \cup Clients \cup LoopThreads \cup Handlers
             \cup TurnThreads \cup AudioThreads \cup RestThreads

Sids == {"s1", "s2"}
UserIds == {"u1", "u2"}

MonitorPool == <<"M1", "M2", "M3">>
MonitorIds == {MonitorPool[i] : i \in 1..Len(MonitorPool)}

DetectUsers == {"u1"}

-----------------------------------------------------------------------------
(* Pure helpers of detect_emotion_sync *)

RECURSIVE SumConf(_, _)
SumConf(w, e) ==
    IF w = <<>> THEN 0
    ELSE (IF Head(w)[1] = e THEN Head(w)[2] ELSE 0) + SumConf(Tail(w), e)

RECURSIVE CountOf(_, _)
CountOf(w, e) ==
    IF w = <<>> THEN 0
    ELSE (IF Head(w)[1] = e THEN 1 ELSE 0) + CountOf(Tail(w), e)

\* sum(x[1]) / len(x[1]) of emotion_scores[e]; exact because len divides Scale
MeanConf(w, e) == SumConf(w, e) \div CountOf(w, e)

\* the keys of emotion_scores in insertion order: labels by first occurrence
RECURSIVE KeysInOrder(_, _)
KeysInOrder(w, seen) ==
    IF w = <<>> THEN <<>>
    ELSE IF Head(w)[1] \in seen THEN KeysInOrder(Tail(w), seen)
    ELSE <<Head(w)[1]>> \o KeysInOrder(Tail(w), seen \cup {Head(w)[1]})

\* Python's max(iterable, key=...): the first item whose key is largest
RECURSIVE MaxByMeanLast(_, _, _)
MaxByMeanLast(w, keys, best) ==
    IF keys = <<>> THEN best
    ELSE MaxByMeanLast(w, Tail(keys),
                       IF MeanConf(w, Head(keys)) >= MeanConf(w, best)
                       THEN Head(keys) ELSE best)

RECURSIVE MaxByMean(_, _, _)
MaxByMean(w, keys, best) ==
    IF keys = <<>> THEN best
    ELSE MaxByMean(w, Tail(keys),
                   IF MeanConf(w, Head(keys)) > MeanConf(w, best)
                   THEN Head(keys) ELSE best)

StableEmotion(w) ==
    LET keys == KeysInOrder(w, {}) IN MaxByMean(w, Tail(keys), Head(keys))

AvgConfidence(w) == MeanConf(w, StableEmotion(w))

NeutralizeNever(stable, avg) == stable

Neutralize(stable, avg) ==
    IF avg < CONFIDENCE_THRESHOLD THEN "neutral" ELSE stable

DequeAppendUnbounded(w, x) == Append(w, x)

\* deque(maxlen=8).append
DequeAppend(w, x) ==
    IF Len(w) >= WindowMax THEN Tail(w) \o <<x>> ELSE Append(w, x)

BiasCorrectNever(f) == <<f.dom, Pct(f.score)>>

\* the scores a frame's classification yields, and the bias correction
BiasCorrect(f) ==
    LET confidence == Pct(f.score) IN
    IF f.dom \in {"fear", "sad"} /\ confidence < Pct(BiasLimitPct)
    THEN IF Pct(f.neutral) > confidence - Pct(BiasMarginPct)
         THEN <<"neutral", Pct(f.neutral)>>
         ELSE IF Pct(f.happy) > confidence - Pct(BiasMarginPct)
              THEN <<"happy", Pct(f.happy)>>
              ELSE <<f.dom, confidence>>
    ELSE <<f.dom, confidence>>

CacheFreshInverted(t, ts) == t - ts > EMOTION_CACHE_TTL

CacheFresh(t, ts) == t - ts < EMOTION_CACHE_TTL

CanAcquireUnlocked(lock) == TRUE

CanAcquire(lock) == lock = Free

-----------------------------------------------------------------------------
(* State of the detector after module import *)

CacheInit == [emotion |-> "neutral", confidence |-> 0, timestamp |-> 0]

NoMatch == [kind |-> None, emotion |-> None, confidence |-> 0]

LocInit == [emotion |-> None, confidence |-> 0, stable |-> None, ret |-> FALSE,
            captured |-> FALSE, classified |-> FALSE, self |-> None,
            t0 |-> 0, seen |-> CacheInit, wv |-> 0, match |-> NoMatch]

ArgsInit == [bypass |-> FALSE, uid |-> None]

NoResult == [kind |-> "none", via |-> None, emotion |-> None, confidence |-> 0,
             seen |-> CacheInit]

InitDetector(fs, limit) ==
    /\ now = EMOTION_CACHE_TTL
    /\ emotion_cache = CacheInit
    /\ cache_lock = Free
    /\ recent_emotions = <<>>
    /\ iterDirty = [t \in Threads |-> FALSE]
    /\ pc = [t \in Threads |-> "idle"]
    /\ args = [t \in Threads |-> ArgsInit]
    /\ loc = [t \in Threads |-> LocInit]
    /\ result = [t \in Threads |-> NoResult]
    /\ frames = fs
    /\ calls = 0
    /\ callLimit = limit
    /\ history = <<>>
    /\ cacheWrites = 0
    /\ written = {CacheInit}
    /\ callLog = <<>>

\* before app.py and websocket_handler.py have created any monitor
InitMonitors ==
    /\ app_monitor = None
    /\ ws_monitor = None
    /\ monitors = [m \in MonitorIds |->
                     [created |-> FALSE, running |-> FALSE, thread |-> None,
                      user_id |-> None]]
    /\ loopOf = [t \in Threads |-> None]

-----------------------------------------------------------------------------
(* detect_emotion_sync, statement by statement *)

\* where a thread goes on when its call returns: a turn uses the face signal
AfterCall(t) ==
    IF t \in TurnThreads THEN "hm_fuse"
    ELSE IF t \in RestThreads THEN "gr_mood" ELSE "idle"

LogEntry(t, e, c) ==
    [bypass |-> args[t].bypass, t0 |-> loc[t].t0, seen |-> loc[t].seen,
     wv |-> loc[t].wv, emotion |-> e, confidence |-> c,
     captured |-> loc[t].captured, classified |-> loc[t].classified]

\* return e, c (kind "value") or an exception leaving the call (kind "raised");
\* via names the return statement, seen the cache entry the call checked
Return(t, kind, via, e, c) ==
    /\ result' = [result EXCEPT ![t] =
                    [kind |-> kind, via |-> via, emotion |-> e,
                     confidence |-> c, seen |-> loc[t].seen]]
    /\ pc' = [pc EXCEPT ![t] = AfterCall(t)]
    /\ loc' = [loc EXCEPT ![t] = LocInit]
    /\ args' = [args EXCEPT ![t] = ArgsInit]
    /\ callLog' = IF t \in Clients /\ kind = "value" /\ via # "peek"
                     /\ ~args[t].bypass
                  THEN Append(callLog, LogEntry(t, e, c)) ELSE callLog

\* the call detect_emotion_sync(user_id=uid, bypass_cache=bypass) begins
DetectBegin(t, bypass, uid) ==
    /\ pc[t] = "idle"
    /\ calls < callLimit
    /\ calls' = calls + 1
    /\ args' = [args EXCEPT ![t] = [bypass |-> bypass, uid |-> uid]]
    /\ pc' = [pc EXCEPT ![t] = IF bypass THEN "capture" ELSE "check_lock"]
    /\ result' = [result EXCEPT ![t] = NoResult]
    /\ UNCHANGED <<now, emotion_cache, cache_lock, recent_emotions, iterDirty,
                   loc, frames, callLimit, history, cacheWrites, written, callLog, monitorVars, applied, emotion_calibration, turnVars>>

\* with _cache_lock:
CheckAcquire(t) ==
    /\ pc[t] = "check_lock"
    /\ CanAcquire(cache_lock)
    /\ cache_lock' = t
    /\ pc' = [pc EXCEPT ![t] = "check_now"]
    /\ UNCHANGED <<now, emotion_cache, recent_emotions, iterDirty, args, loc,
                   result, frames, callLimit, history, calls, cacheWrites, written, callLog, monitorVars, applied, emotion_calibration, turnVars>>

\* now = time.time(); if now - _emotion_cache["timestamp"] < TTL
CheckNow(t) ==
    /\ pc[t] = "check_now"
    /\ loc' = [loc EXCEPT ![t].t0 = now, ![t].seen = emotion_cache,
                          ![t].wv = cacheWrites]
    /\ IF CacheFresh(now, emotion_cache.timestamp)
       THEN /\ pc' = [pc EXCEPT ![t] = "hit_emotion"]
            /\ UNCHANGED cache_lock
       ELSE /\ pc' = [pc EXCEPT ![t] = "capture"]
            /\ cache_lock' = Free
    /\ UNCHANGED <<now, emotion_cache, recent_emotions, iterDirty, args,
                   result, frames, callLimit, history, calls, cacheWrites, written, callLog, monitorVars, applied, emotion_calibration, turnVars>>

\* return _emotion_cache["emotion"], ...
HitEmotion(t) ==
    /\ pc[t] = "hit_emotion"
    /\ loc' = [loc EXCEPT ![t].emotion = emotion_cache.emotion]
    /\ pc' = [pc EXCEPT ![t] = "hit_confidence"]
    /\ UNCHANGED <<now, emotion_cache, cache_lock, recent_emotions, iterDirty,
                   args, result, frames, callLimit, history, calls, cacheWrites, written, callLog, monitorVars, applied, emotion_calibration, turnVars>>

\* ..., _emotion_cache["confidence"]; the with block releases the lock
HitConfidence(t) ==
    /\ pc[t] = "hit_confidence"
    /\ cache_lock' = Free
    /\ Return(t, "value", "hit", loc[t].emotion, emotion_cache.confidence)
    /\ UNCHANGED <<now, emotion_cache, recent_emotions, iterDirty, frames, callLimit, history,
                   calls, cacheWrites, written, monitorVars, applied, emotion_calibration, turnVars>>

\* cap = cv2.VideoCapture(0)
CapOpen(t) ==
    /\ pc[t] = "capture"
    /\ pc' = [pc EXCEPT ![t] = "cap_read"]
    /\ loc' = [loc EXCEPT ![t].captured = TRUE]
    /\ UNCHANGED <<now, emotion_cache, cache_lock, recent_emotions, iterDirty,
                   args, result, frames, callLimit, history, calls, cacheWrites, written, callLog, monitorVars, applied, emotion_calibration, turnVars>>

\* ret, frame = cap.read()
CapRead(t) ==
    /\ pc[t] = "cap_read"
    /\ \E ok \in BOOLEAN : loc' = [loc EXCEPT ![t].ret = ok]
    /\ pc' = [pc EXCEPT ![t] = "cap_release"]
    /\ UNCHANGED <<now, emotion_cache, cache_lock, recent_emotions, iterDirty,
                   args, result, frames, callLimit, history, calls, cacheWrites, written, callLog, monitorVars, applied, emotion_calibration, turnVars>>

CapReleaseRaises(t) ==
    /\ pc[t] = "cap_release"
    /\ IF ~loc[t].ret
       THEN Return(t, "raised", "nocapture", None, 0)
       ELSE /\ pc' = [pc EXCEPT ![t] = IF args[t].uid # None
                                        THEN "personal" ELSE "classify"]
            /\ UNCHANGED <<args, loc, result, callLog>>
    /\ UNCHANGED <<now, emotion_cache, cache_lock, recent_emotions, iterDirty,
                   frames, callLimit, history, calls, cacheWrites, written, monitorVars, applied, emotion_calibration, turnVars>>

\* cap.release(); if not ret: return "neutral", 0.0; if user_id: ...
CapRelease(t) ==
    /\ pc[t] = "cap_release"
    /\ IF ~loc[t].ret
       THEN Return(t, "value", "nocapture", "neutral", 0)
       ELSE /\ pc' = [pc EXCEPT ![t] = IF args[t].uid # None
                                        THEN "personal" ELSE "classify"]
            /\ UNCHANGED <<args, loc, result, callLog>>
    /\ UNCHANGED <<now, emotion_cache, cache_lock, recent_emotions, iterDirty,
                   frames, callLimit, history, calls, cacheWrites, written, monitorVars, applied, emotion_calibration, turnVars>>

\* the outcomes of calibrator.has_calibration / calibrator.match_emotion
MatchOutcomes ==
    {[kind |-> "nocal", emotion |-> None, confidence |-> 0],
     [kind |-> "raise", emotion |-> None, confidence |-> 0],
     [kind |-> "match", emotion |-> None, confidence |-> Pct(60)],
     [kind |-> "match", emotion |-> "happy", confidence |-> Pct(70)],
     [kind |-> "match", emotion |-> "sad", confidence |-> Pct(85)]}

MatchAcceptedAtLeast(m) ==
    m.kind = "match" /\ m.emotion # None /\ m.confidence >= Pct(MatchPct)

\* if emotion and confidence > 0.7
MatchAccepted(m) ==
    m.kind = "match" /\ m.emotion # None /\ m.confidence > Pct(MatchPct)

\* if user_id: try the personalized match first
Personal(t) ==
    /\ pc[t] = "personal"
    /\ \E m \in MatchOutcomes :
          IF MatchAccepted(m)
          THEN /\ loc' = [loc EXCEPT ![t].emotion = m.emotion,
                                     ![t].confidence = m.confidence,
                                     ![t].match = m]
               /\ pc' = [pc EXCEPT ![t] = "pwrite_lock"]
          ELSE /\ pc' = [pc EXCEPT ![t] = "classify"]
               /\ loc' = [loc EXCEPT ![t].match = m]
    /\ UNCHANGED <<now, emotion_cache, cache_lock, recent_emotions, iterDirty,
                   args, result, frames, callLimit, history, calls, cacheWrites, written, callLog, monitorVars, applied, emotion_calibration, turnVars>>

\* with _cache_lock: (the personalized write site)
PWriteAcquire(t) ==
    /\ pc[t] = "pwrite_lock"
    /\ CanAcquire(cache_lock)
    /\ cache_lock' = t
    /\ pc' = [pc EXCEPT ![t] = "pwrite"]
    /\ UNCHANGED <<now, emotion_cache, recent_emotions, iterDirty, args, loc,
                   result, frames, callLimit, history, calls, cacheWrites, written, callLog, monitorVars, applied, emotion_calibration, turnVars>>

\* _emotion_cache = {emotion, confidence, time.time()}; return emotion, confidence
PWrite(t) ==
    /\ pc[t] = "pwrite"
    /\ emotion_cache' = [emotion |-> loc[t].emotion,
                         confidence |-> loc[t].confidence, timestamp |-> now]
    /\ cacheWrites' = cacheWrites + 1
    /\ written' = written \cup {emotion_cache'}
    /\ cache_lock' = Free
    /\ Return(t, "value", "personal", loc[t].emotion, loc[t].confidence)
    /\ UNCHANGED <<now, recent_emotions, iterDirty, frames, callLimit, history, calls, monitorVars, applied, emotion_calibration, turnVars>>

ClassifyCachesFailure(t) ==
    /\ pc[t] = "classify"
    /\ \/ /\ Return(t, "value", "noclassify", "neutral", 0)
          /\ emotion_cache' = [emotion |-> "neutral", confidence |-> 0,
                               timestamp |-> now]
          /\ UNCHANGED <<now, cache_lock, recent_emotions,
                         iterDirty, frames, callLimit, history, calls, cacheWrites, written, monitorVars, applied, emotion_calibration, turnVars>>
       \/ /\ \E f \in frames :
                loc' = [loc EXCEPT ![t].emotion = BiasCorrect(f)[1],
                                   ![t].confidence = BiasCorrect(f)[2],
                                   ![t].classified = TRUE,
                                   ![t].match = NoMatch]
          /\ pc' = [pc EXCEPT ![t] = "append"]
          /\ UNCHANGED <<now, emotion_cache, cache_lock, recent_emotions,
                         iterDirty, args, result, frames, callLimit, history, calls, cacheWrites, written,
                         callLog, monitorVars, applied, emotion_calibration, turnVars>>

\* DeepFace.analyze and the bias correction; an exception returns neutral, 0.0;
\* emotion and confidence, which held the rejected match, are assigned anew
Classify(t) ==
    /\ pc[t] = "classify"
    /\ \/ /\ Return(t, "value", "noclassify", "neutral", 0)
          /\ UNCHANGED <<now, emotion_cache, cache_lock, recent_emotions,
                         iterDirty, frames, callLimit, history, calls, cacheWrites, written, monitorVars, applied, emotion_calibration, turnVars>>
       \/ /\ \E f \in frames :
                loc' = [loc EXCEPT ![t].emotion = BiasCorrect(f)[1],
                                   ![t].confidence = BiasCorrect(f)[2],
                                   ![t].classified = TRUE,
                                   ![t].match = NoMatch]
          /\ pc' = [pc EXCEPT ![t] = "append"]
          /\ UNCHANGED <<now, emotion_cache, cache_lock, recent_emotions,
                         iterDirty, args, result, frames, callLimit, history, calls, cacheWrites, written,
                         callLog, monitorVars, applied, emotion_calibration, turnVars>>

\* recent_emotions.append((emotion, confidence)): every live iterator of the
\* deque finds it mutated
AppendSample(t) ==
    /\ pc[t] = "append"
    /\ recent_emotions' =
          DequeAppend(recent_emotions, <<loc[t].emotion, loc[t].confidence>>)
    /\ iterDirty' = [u \in Threads |-> iterDirty[u] \/ pc[u] = "iter_end"]
    /\ history' = Append(history, <<loc[t].emotion, loc[t].confidence>>)
    /\ pc' = [pc EXCEPT ![t] = "iter"]
    /\ UNCHANGED <<now, emotion_cache, cache_lock, args, loc, result, frames, callLimit,
                   calls, cacheWrites, written, callLog, monitorVars, applied, emotion_calibration, turnVars>>

\* for emo, conf in recent_emotions: the iterator is created
IterStart(t) ==
    /\ pc[t] = "iter"
    /\ iterDirty' = [iterDirty EXCEPT ![t] = FALSE]
    /\ pc' = [pc EXCEPT ![t] = "iter_end"]
    /\ UNCHANGED <<now, emotion_cache, cache_lock, recent_emotions, args, loc,
                   result, frames, callLimit, history, calls, cacheWrites, written, callLog, monitorVars, applied, emotion_calibration, turnVars>>

\* the loop ends: RuntimeError("deque mutated during iteration") leaves the
\* call, or stable_emotion, avg_confidence and the neutralisation are computed
IterEnd(t) ==
    /\ pc[t] = "iter_end"
    /\ IF iterDirty[t]
       THEN /\ Return(t, "raised", "iteration", None, 0)
            /\ iterDirty' = [iterDirty EXCEPT ![t] = FALSE]
       ELSE /\ loc' = [loc EXCEPT
                  ![t].stable = StableEmotion(recent_emotions),
                  ![t].emotion = Neutralize(StableEmotion(recent_emotions),
                                            AvgConfidence(recent_emotions)),
                  ![t].confidence = AvgConfidence(recent_emotions)]
            /\ pc' = [pc EXCEPT ![t] = "write_lock"]
            /\ UNCHANGED <<iterDirty, args, result, callLog>>
    /\ UNCHANGED <<now, emotion_cache, cache_lock, recent_emotions, frames, callLimit, history,
                   calls, cacheWrites, written, monitorVars, applied, emotion_calibration, turnVars>>

\* with _cache_lock: (the smoothing write site)
WriteAcquire(t) ==
    /\ pc[t] = "write_lock"
    /\ CanAcquire(cache_lock)
    /\ cache_lock' = t
    /\ pc' = [pc EXCEPT ![t] = "write"]
    /\ UNCHANGED <<now, emotion_cache, recent_emotions, iterDirty, args, loc,
                   result, frames, callLimit, history, calls, cacheWrites, written, callLog, monitorVars, applied, emotion_calibration, turnVars>>

\* _emotion_cache = {stable_emotion, avg_confidence, time.time()}; return
WriteCache(t) ==
    /\ pc[t] = "write"
    /\ emotion_cache' = [emotion |-> loc[t].emotion,
                         confidence |-> loc[t].confidence, timestamp |-> now]
    /\ cacheWrites' = cacheWrites + 1
    /\ written' = written \cup {emotion_cache'}
    /\ cache_lock' = Free
    /\ Return(t, "value", "smoothed", loc[t].emotion, loc[t].confidence)
    /\ UNCHANGED <<now, recent_emotions, iterDirty, frames, callLimit, history, calls, monitorVars, applied, emotion_calibration, turnVars>>

DetectStep(t) ==
    \/ CheckAcquire(t) \/ CheckNow(t) \/ HitEmotion(t) \/ HitConfidence(t)
    \/ CapOpen(t) \/ CapRead(t) \/ CapRelease(t)
    \/ Personal(t) \/ PWriteAcquire(t) \/ PWrite(t)
    \/ Classify(t) \/ AppendSample(t) \/ IterStart(t) \/ IterEnd(t)
    \/ WriteAcquire(t) \/ WriteCache(t)

-----------------------------------------------------------------------------
(* get_cached_emotion, statement by statement *)

GetCachedBegin(t) ==
    /\ pc[t] = "idle"
    /\ pc' = [pc EXCEPT ![t] = "peek_lock"]
    /\ result' = [result EXCEPT ![t] = NoResult]
    /\ UNCHANGED <<now, emotion_cache, cache_lock, recent_emotions, iterDirty,
                   args, loc, frames, callLimit, history, calls, cacheWrites, written,
                   callLog, monitorVars, applied, emotion_calibration, turnVars>>

\* with _cache_lock:
GetCachedAcquire(t) ==
    /\ pc[t] = "peek_lock"
    /\ CanAcquire(cache_lock)
    /\ cache_lock' = t
    /\ loc' = [loc EXCEPT ![t].seen = emotion_cache]
    /\ pc' = [pc EXCEPT ![t] = "peek_emotion"]
    /\ UNCHANGED <<now, emotion_cache, recent_emotions, iterDirty, args,
                   result, frames, callLimit, history, calls, cacheWrites, written,
                   callLog, monitorVars, applied, emotion_calibration, turnVars>>

\* return _emotion_cache["emotion"], ...
GetCachedEmotion(t) ==
    /\ pc[t] = "peek_emotion"
    /\ loc' = [loc EXCEPT ![t].emotion = emotion_cache.emotion]
    /\ pc' = [pc EXCEPT ![t] = "peek_confidence"]
    /\ UNCHANGED <<now, emotion_cache, cache_lock, recent_emotions, iterDirty,
                   args, result, frames, callLimit, history, calls,
                   cacheWrites, written, callLog, monitorVars, applied, emotion_calibration, turnVars>>

\* ..., _emotion_cache["confidence"]; the with block releases the lock
GetCachedConfidence(t) ==
    /\ pc[t] = "peek_confidence"
    /\ cache_lock' = Free
    /\ Return(t, "value", "peek", loc[t].emotion, emotion_cache.confidence)
    /\ UNCHANGED <<now, emotion_cache, recent_emotions, iterDirty, frames,
                   callLimit, history, calls, cacheWrites, written, monitorVars, applied, emotion_calibration, turnVars>>

GetCachedStep(t) ==
    \/ GetCachedAcquire(t) \/ GetCachedEmotion(t) \/ GetCachedConfidence(t)

\* One second passes.  The clock is read at the cache check and at the two
\* cache writes only, so a second that passes anywhere between two reads of the
\* clock is taken when the thread is between calls or inside the classifier.
Tick ==
    /\ \A t \in Threads : pc[t] \in {"idle", "classify"}
    /\ now < EMOTION_CACHE_TTL + MaxTicks
    /\ now' = now + 1
    /\ UNCHANGED <<emotion_cache, cache_lock, recent_emotions, iterDirty, pc,
                   args, loc, result, frames, callLimit, history, calls, cacheWrites, written, callLog, monitorVars, applied, emotion_calibration, turnVars>>

-----------------------------------------------------------------------------
(* BackgroundEmotionMonitor, and the two places of the server that start one *)

FreshMonitor ==
    MonitorPool[CHOOSE i \in 1..Len(MonitorPool) :
                  /\ ~monitors[MonitorPool[i]].created
                  /\ \A j \in 1..(i - 1) : monitors[MonitorPool[j]].created]

FreshThread ==
    LoopPool[CHOOSE i \in 1..Len(LoopPool) :
               /\ loopOf[LoopPool[i]] = None
               /\ \A j \in 1..(i - 1) : loopOf[LoopPool[j]] # None]

HasFreshMonitor == \E m \in MonitorIds : ~monitors[m].created
HasFreshThread == \E t \in LoopThreads : loopOf[t] = None

\* BackgroundEmotionMonitor(interval, user_id=None)
NewMonitor == [created |-> TRUE, running |-> FALSE, thread |-> None,
               user_id |-> None]

SpawnForUser(m) ==
    /\ HasFreshThread
    /\ monitors' = [monitors EXCEPT ![m] =
                      [created |-> TRUE, running |-> TRUE,
                       thread |-> FreshThread, user_id |-> "u1"]]
    /\ loopOf' = [loopOf EXCEPT ![FreshThread] = m]

\* self.running = True; self.thread = Thread(target=self._monitor_loop); start()
Spawn(m) ==
    /\ HasFreshThread
    /\ monitors' = [monitors EXCEPT ![m] =
                      [created |-> TRUE, running |-> TRUE,
                       thread |-> FreshThread, user_id |-> None]]
    /\ loopOf' = [loopOf EXCEPT ![FreshThread] = m]

\* app.py at import: emotion_monitor = BackgroundEmotionMonitor(interval=3.0);
\* emotion_monitor.start()
AppImport ==
    /\ app_monitor = None
    /\ HasFreshMonitor
    /\ app_monitor' = FreshMonitor
    /\ Spawn(FreshMonitor)
    /\ UNCHANGED <<detectorVars, ws_monitor, turnVars, applied, emotion_calibration>>

\* handle_connect: emit('connected'); if emotion_monitor is None:
Connect(h) ==
    /\ pc[h] = "idle"
    /\ app_monitor # None
    /\ ws_monitor = None
    /\ pc' = [pc EXCEPT ![h] = "conn_assign"]
    /\ UNCHANGED <<now, emotion_cache, cache_lock, recent_emotions, iterDirty,
                   args, loc, result, frames, calls, callLimit, history,
                   cacheWrites, written, callLog, monitorVars, applied, emotion_calibration, turnVars>>

\* emotion_monitor = BackgroundEmotionMonitor(interval=5.0)
ConnAssign(h) ==
    /\ pc[h] = "conn_assign"
    /\ HasFreshMonitor
    /\ monitors' = [monitors EXCEPT ![FreshMonitor] = NewMonitor]
    /\ ws_monitor' = FreshMonitor
    /\ pc' = [pc EXCEPT ![h] = "conn_start"]
    /\ UNCHANGED <<now, emotion_cache, cache_lock, recent_emotions, iterDirty,
                   args, loc, result, frames, calls, callLimit, history,
                   cacheWrites, written, callLog, app_monitor, loopOf, turnVars, applied, emotion_calibration>>

\* emotion_monitor.start(): the global is read again; if not self.running:
ConnStart(h) ==
    /\ pc[h] = "conn_start"
    /\ IF monitors[ws_monitor].running
       THEN /\ pc' = [pc EXCEPT ![h] = "idle"]
            /\ UNCHANGED loc
       ELSE /\ pc' = [pc EXCEPT ![h] = "start_spawn"]
            /\ loc' = [loc EXCEPT ![h].self = ws_monitor]
    /\ UNCHANGED <<now, emotion_cache, cache_lock, recent_emotions, iterDirty,
                   args, result, frames, calls, callLimit, history,
                   cacheWrites, written, callLog, monitorVars, applied, emotion_calibration, turnVars>>

\* start(), after the test of self.running: the loop thread is started
StartSpawn(h) ==
    /\ pc[h] = "start_spawn"
    /\ Spawn(loc[h].self)
    /\ pc' = [pc EXCEPT ![h] = "idle"]
    /\ loc' = [loc EXCEPT ![h] = LocInit]
    /\ UNCHANGED <<now, emotion_cache, cache_lock, recent_emotions, iterDirty,
                   args, result, frames, calls, callLimit, history,
                   cacheWrites, written, callLog, app_monitor, ws_monitor, turnVars, applied, emotion_calibration>>

LoopIterateEndsOnFailure(t) ==
    /\ loopOf[t] # None
    /\ pc[t] = "idle"
    /\ IF /\ monitors[loopOf[t]].running
          /\ (result[t].kind = "none" \/ result[t].confidence # 0)
       THEN DetectBegin(t, TRUE, monitors[loopOf[t]].user_id)
       ELSE /\ pc' = [pc EXCEPT ![t] = "exited"]
            /\ UNCHANGED <<now, emotion_cache, cache_lock, recent_emotions,
                           iterDirty, args, loc, result, frames, calls,
                           callLimit, history, cacheWrites, written, callLog,
                           monitorVars, applied, emotion_calibration, turnVars>>

\* _monitor_loop: while self.running: detect_emotion_sync(user_id=self.user_id,
\* bypass_cache=True); an exception of the call is caught and the loop goes on
LoopIterate(t) ==
    /\ loopOf[t] # None
    /\ pc[t] = "idle"
    /\ IF monitors[loopOf[t]].running
       THEN DetectBegin(t, TRUE, monitors[loopOf[t]].user_id)
       ELSE /\ pc' = [pc EXCEPT ![t] = "exited"]
            /\ UNCHANGED <<now, emotion_cache, cache_lock, recent_emotions,
                           iterDirty, args, loc, result, frames, calls,
                           callLimit, history, cacheWrites, written, callLog,
                           monitorVars, applied, emotion_calibration, turnVars>>

\* a thread whose target is a monitor loop and has not ended
LoopAlive(t) == loopOf[t] # None /\ pc[t] # "exited"

-----------------------------------------------------------------------------
(* The text of a message, by the features the code looks at: whether it    *)
(* has characters and whether any is not white space, the number of words  *)
(* of each lexicon it contains, its exclamation marks, and the percentage  *)
(* of its characters that are upper case.                                  *)

Msg(chars, happy, sad, angry, fear, excl, caps) ==
    [chars |-> chars, happy |-> happy, sad |-> sad, angry |-> angry,
     fear |-> fear, excl |-> excl, caps |-> caps]

MsgNone == Msg("none", 0, 0, 0, 0, 0, 0)          \* ""
MsgBlank == Msg("blank", 0, 0, 0, 0, 0, 0)        \* "   "
MsgHello == Msg("words", 0, 0, 0, 0, 0, 0)        \* "hello there"
MsgSad == Msg("words", 0, 1, 0, 0, 0, 0)          \* "i feel sad"

StripKeepsBlank(m) == m

\* str.strip()
Strip(m) == IF m.chars = "blank" THEN MsgNone ELSE m

Min2(a, b) == IF a < b THEN a ELSE b
Max2(a, b) == IF a > b THEN a ELSE b

VoiceScoresNoBaseline(m) ==
    LET base == [happy |-> m.happy * 10, sad |-> m.sad * 10,
                 angry |-> m.angry * 10, fear |-> m.fear * 10]
        punct == IF m.excl = 0 THEN base
                 ELSE IF m.happy > 0
                      THEN [base EXCEPT !.happy = @ + m.excl * 5]
                 ELSE IF m.angry > 0
                      THEN [base EXCEPT !.angry = @ + m.excl * 5]
                 ELSE [base EXCEPT !.angry = @ + m.excl * 2]
        caps == IF m.caps > 30 THEN [punct EXCEPT !.angry = @ + 10] ELSE punct
    IN  <<[k |-> "happy", v |-> caps.happy], [k |-> "sad", v |-> caps.sad],
          [k |-> "angry", v |-> caps.angry], [k |-> "fear", v |-> caps.fear],
          [k |-> "neutral", v |-> 0]>>

\* the scores dict of analyze_voice_tone, in tenths, in insertion order
VoiceScores(m) ==
    LET base == [happy |-> m.happy * 10, sad |-> m.sad * 10,
                 angry |-> m.angry * 10, fear |-> m.fear * 10]
        punct == IF m.excl = 0 THEN base
                 ELSE IF m.happy > 0
                      THEN [base EXCEPT !.happy = @ + m.excl * 5]
                 ELSE IF m.angry > 0
                      THEN [base EXCEPT !.angry = @ + m.excl * 5]
                 ELSE [base EXCEPT !.angry = @ + m.excl * 2]
        caps == IF m.caps > 30 THEN [punct EXCEPT !.angry = @ + 10] ELSE punct
    IN  <<[k |-> "happy", v |-> caps.happy], [k |-> "sad", v |-> caps.sad],
          [k |-> "angry", v |-> caps.angry], [k |-> "fear", v |-> caps.fear],
          [k |-> "neutral", v |-> 5]>>

\* max(scores.items(), key=...): the first item of maximal score
MaxItem(items) ==
    items[CHOOSE i \in 1..Len(items) :
            /\ \A j \in 1..Len(items) : items[j].v <= items[i].v
            /\ \A j \in 1..(i - 1) : items[j].v < items[i].v]

SumItems(items) ==
    LET RECURSIVE S(_)
        S(i) == IF i = 0 THEN 0 ELSE items[i].v + S(i - 1)
    IN  S(Len(items))

analyze_voice_toneAlwaysBoosted(m) ==
    IF m.chars = "none" THEN <<"neutral", Pct(30)>>
    ELSE LET items == VoiceScores(m)
             dom == MaxItem(items)
             total == SumItems(items)
             base == Min2((Pct(100) * dom.v) \div Max2(total, 10), Pct(80))
         IN  <<dom.k, Min2(base + Pct(10), Pct(90))>>

\* analyze_voice_tone(text=m): (label, confidence)
analyze_voice_tone(m) ==
    IF m.chars = "none" THEN <<"neutral", Pct(30)>>
    ELSE LET items == VoiceScores(m)
             dom == MaxItem(items)
             total == SumItems(items)
             base == Min2((Pct(100) * dom.v) \div Max2(total, 10), Pct(80))
             conf == IF m.excl > 1 \/ m.caps > 50
                     THEN Min2(base + Pct(10), Pct(90)) ELSE base
         IN  <<dom.k, conf>>

AgreedConfidenceUnclamped(fc, vc) == ((fc * 6 + vc * 4) * 12) \div 100

\* min((face_conf * face_weight + voice_conf * voice_weight) * 1.2, 1.0)
AgreedConfidence(fc, vc) ==
    Min2(((fc * 6 + vc * 4) * 12) \div 100, Pct(100))

WeightedWinnerTieToVoice(fe, fc, ve, vc) ==
    IF vc * 4 >= fc * 6 THEN <<ve, (vc * 4) \div 10>>
    ELSE <<fe, (fc * 6) \div 10>>

\* the branch taken when the two labels disagree
WeightedWinner(fe, fc, ve, vc) ==
    IF vc * 4 > fc * 6 THEN <<ve, (vc * 4) \div 10>>
    ELSE <<fe, (fc * 6) \div 10>>

combine_emotionsAlwaysWeighted(fe, fc, ve, vc) ==
    IF fe = ve THEN <<fe, AgreedConfidence(fc, vc)>>
    ELSE WeightedWinner(fe, fc, ve, vc)

\* combine_emotions(face_emotion, face_conf, voice_emotion, voice_conf)
combine_emotions(fe, fc, ve, vc) ==
    IF fc < Pct(40) THEN <<ve, vc>>
    ELSE IF vc < Pct(40) THEN <<fe, fc>>
    ELSE IF fe = ve THEN <<fe, AgreedConfidence(fc, vc)>>
    ELSE WeightedWinner(fe, fc, ve, vc)

combine_moodsCheerfulFirst(face_emotion, voice_sentiment) ==
    IF face_emotion \in {"happy", "surprise"}
       \/ voice_sentiment \in {"positive", "joy"} THEN "cheerful"
    ELSE IF face_emotion \in {"angry", "sad", "fear"}
            \/ voice_sentiment \in {"negative", "sad"} THEN "low"
    ELSE "neutral"

\* mood_manager.combine_moods
combine_moods(face_emotion, voice_sentiment) ==
    IF face_emotion \in {"angry", "sad", "fear"}
       \/ voice_sentiment \in {"negative", "sad"} THEN "low"
    ELSE IF face_emotion \in {"happy", "surprise"}
            \/ voice_sentiment \in {"positive", "joy"} THEN "cheerful"
    ELSE "neutral"

MoodInit == [face_emotion |-> "neutral", voice_sentiment |-> "neutral",
             combined_mood |-> "neutral"]

mood_changedDamped(state, face_emotion, voice_sentiment) ==
    /\ combine_moods(face_emotion, voice_sentiment) # state.combined_mood
    /\ "neutral" \in {state.combined_mood,
                      combine_moods(face_emotion, voice_sentiment)}

\* changed = new_mood != current_mood_state["combined_mood"]
mood_changed(state, face_emotion, voice_sentiment) ==
    combine_moods(face_emotion, voice_sentiment) # state.combined_mood

update_moodStale(state, face_emotion, voice_sentiment) == state

\* mood_manager.update_mood: the state it leaves (last_update is not modelled)
update_mood(state, face_emotion, voice_sentiment) ==
    LET new_mood == combine_moods(face_emotion, voice_sentiment)
    IN  IF new_mood # state.combined_mood
        THEN [face_emotion |-> face_emotion,
              voice_sentiment |-> voice_sentiment, combined_mood |-> new_mood]
        ELSE state

\* main.PERSONALITY_PROFILES, each persona by its name and tone
PERSONALITY_PROFILES ==
    [cheerful |-> [name |-> "Kai", tone |-> "happy"],
     low |-> [name |-> "Luna", tone |-> "sad"],
     stressed |-> [name |-> "Astra", tone |-> "calm"],
     angry |-> [name |-> "Nova", tone |-> "neutral"],
     neutral |-> [name |-> "Echo", tone |-> "neutral"]]

\* str.lower() on the mood strings of the model
Lower(s) ==
    CASE s = "Cheerful" -> "cheerful"
      [] s = "LOW" -> "low"
      [] s = "Stressed" -> "stressed"
      [] s = "NEUTRAL" -> "neutral"
      [] OTHER -> s

choose_personalityExact(mood) ==
    IF mood \in DOMAIN PERSONALITY_PROFILES
    THEN PERSONALITY_PROFILES[mood] ELSE PERSONALITY_PROFILES["neutral"]

\* main.choose_personality: mood = mood.lower(), then the lookup
choose_personality(mood) ==
    IF Lower(mood) \in DOMAIN PERSONALITY_PROFILES
    THEN PERSONALITY_PROFILES[Lower(mood)] ELSE PERSONALITY_PROFILES["neutral"]

\* personality.PERSONALITIES, each persona by its style and voice
PERSONALITIES ==
    [cheerful |-> [style |-> "energetic", voice |-> "alloy"],
     low |-> [style |-> "empathetic", voice |-> "echo"],
     neutral |-> [style |-> "balanced", voice |-> "nova"],
     stressed |-> [style |-> "soothing", voice |-> "shimmer"],
     angry |-> [style |-> "logical", voice |-> "fable"]]

\* persona = PERSONALITIES.get(personality, PERSONALITIES["neutral"])
PERSONALITIES_get(personality) ==
    IF personality \in DOMAIN PERSONALITIES
    THEN PERSONALITIES[personality] ELSE PERSONALITIES["neutral"]

\* the reply of ai_core.generate_response when the API call fails
GenerationApology == "I'm having trouble thinking right now. Can you try again?"
\* the reply of main.get_roomie_response when anything in it raises
RoomieApology == "I'm having trouble right now. Can you try again?"

-----------------------------------------------------------------------------
(* State of websocket_handler, mood_manager and the database at start-up *)

Absent == "absent"

NoPersona == [name |-> None, tone |-> None]

\* the locals of one handle_message execution and of its audio task; done is
\* the set of stages executed, stoppedAt the checkpoint that read the flag as
\* False, stopSeen whether stop_response was handled while the turn ran,
\* passedAfterStop whether a checkpoint let the turn go on after that, and
\* late the events emitted after such a checkpoint
TurnInit == [n |-> 0, sid |-> None, msg |-> MsgNone, user |-> None,
             face |-> <<None, 0>>, emotion |-> None, confidence |-> 0,
             mood |-> None, persona |-> NoPersona, context |-> <<>>,
             response |-> None, speech |-> None, audio |-> None, done |-> {},
             stoppedAt |-> 0, stopSeen |-> FALSE, passedAfterStop |-> FALSE,
             late |-> {}]

RestInit == [msg |-> MsgNone, face |-> <<None, 0>>, mood |-> None,
             persona |-> NoPersona, response |-> None, audio |-> None,
             status |-> None]

NoCall == [fn |-> None, args |-> <<>>, out |-> <<>>]

InitTurns ==
    /\ connected = [s \in Sids |-> "never"]
    /\ user_sessions = [s \in Sids |-> None]
    /\ processing_flags = [s \in Sids |-> Absent]
    /\ current_mood_state = MoodInit
    /\ turn = [T \in TurnThreads |-> TurnInit]
    /\ rest = [G \in RestThreads |-> RestInit]
    /\ conversations = <<>>
    /\ emotion_history = <<>>
    /\ outbox = {}
    /\ turns = 0
    /\ applied = NoCall
    /\ emotion_calibration = <<>>

\* the monitors after app.py was imported and the first client connected
InitServerUp ==
    /\ app_monitor = MonitorPool[1]
    /\ ws_monitor = MonitorPool[2]
    /\ monitors = [m \in MonitorIds |->
                     IF m = MonitorPool[1]
                     THEN [created |-> TRUE, running |-> TRUE,
                           thread |-> LoopPool[1], user_id |-> None]
                     ELSE IF m = MonitorPool[2]
                     THEN [created |-> TRUE, running |-> TRUE,
                           thread |-> LoopPool[2], user_id |-> None]
                     ELSE [created |-> FALSE, running |-> FALSE,
                           thread |-> None, user_id |-> None]]
    /\ loopOf = [t \in Threads |->
                   IF t = LoopPool[1] THEN MonitorPool[1]
                   ELSE IF t = LoopPool[2] THEN MonitorPool[2] ELSE None]

\* the cache entry one monitor sample of frame f leaves in an empty window
SampledEntry(f) ==
    LET w == <<BiasCorrect(f)>>
    IN  [emotion |-> Neutralize(StableEmotion(w), AvgConfidence(w)),
         confidence |-> AvgConfidence(w), timestamp |-> EMOTION_CACHE_TTL]

\* the detector after the first monitor loop sampled frame f once
InitSampled(fs, limit, f) ==
    /\ now = EMOTION_CACHE_TTL
    /\ emotion_cache = SampledEntry(f)
    /\ cache_lock = Free
    /\ recent_emotions = <<BiasCorrect(f)>>
    /\ iterDirty = [t \in Threads |-> FALSE]
    /\ pc = [t \in Threads |-> "idle"]
    /\ args = [t \in Threads |-> ArgsInit]
    /\ loc = [t \in Threads |-> LocInit]
    /\ result = [t \in Threads |->
                   IF t = LoopPool[1]
                   THEN [kind |-> "value", via |-> "smoothed",
                         emotion |-> SampledEntry(f).emotion,
                         confidence |-> SampledEntry(f).confidence,
                         seen |-> CacheInit]
                   ELSE NoResult]
    /\ frames = fs
    /\ calls = 1
    /\ callLimit = limit
    /\ history = <<BiasCorrect(f)>>
    /\ cacheWrites = 1
    /\ written = {CacheInit, SampledEntry(f)}
    /\ callLog = <<>>

-----------------------------------------------------------------------------
(* Socket sessions: connect, the three ways to log in, stop_response and   *)
(* disconnect.  A sid names one connection and is never used again.        *)

\* handle_connect when the monitor exists already: emit('connected')
SessionOpen(sid) ==
    /\ connected[sid] = "never"
    /\ ws_monitor # None
    /\ connected' = [connected EXCEPT ![sid] = "open"]
    /\ UNCHANGED <<detectorVars, monitorVars, applied, emotion_calibration, user_sessions, processing_flags,
                   current_mood_state, turn, rest, conversations,
                   emotion_history, outbox, turns>>

\* handle_login / handle_signup / session restore, when they succeed:
\* user_sessions[request.sid] = user_id
Login(sid, u) ==
    /\ connected[sid] = "open"
    /\ user_sessions[sid] # u
    /\ user_sessions' = [user_sessions EXCEPT ![sid] = u]
    /\ UNCHANGED <<detectorVars, monitorVars, applied, emotion_calibration, connected, processing_flags,
                   current_mood_state, turn, rest, conversations,
                   emotion_history, outbox, turns>>

\* a turn whose handler or audio task has not returned
InProgress(T) == pc[T] # "idle" \/ pc[AudioOf[T]] # "idle"

\* handle_stop_response: if request.sid in processing_flags: ... = False
StopResponse(sid) ==
    /\ connected[sid] = "open"
    /\ IF processing_flags[sid] # Absent
       THEN /\ processing_flags' = [processing_flags EXCEPT ![sid] = "False"]
            /\ turn' = [T \in TurnThreads |->
                          IF turn[T].sid = sid /\ InProgress(T)
                          THEN [turn[T] EXCEPT !.stopSeen = TRUE]
                          ELSE turn[T]]
       ELSE UNCHANGED <<processing_flags, turn>>
    /\ UNCHANGED <<detectorVars, monitorVars, applied, emotion_calibration, connected, user_sessions,
                   current_mood_state, rest, conversations, emotion_history,
                   outbox, turns>>

DisconnectCancels(sid) ==
    /\ connected[sid] = "open"
    /\ connected' = [connected EXCEPT ![sid] = "closed"]
    /\ user_sessions' = [user_sessions EXCEPT ![sid] = None]
    /\ processing_flags' = [processing_flags EXCEPT ![sid] = "False"]
    /\ UNCHANGED <<detectorVars, monitorVars, applied, emotion_calibration, current_mood_state, turn, rest,
                   conversations, emotion_history, outbox, turns>>

\* handle_disconnect: del user_sessions[sid]; del processing_flags[sid]
Disconnect(sid) ==
    /\ connected[sid] = "open"
    /\ connected' = [connected EXCEPT ![sid] = "closed"]
    /\ user_sessions' = [user_sessions EXCEPT ![sid] = None]
    /\ processing_flags' = [processing_flags EXCEPT ![sid] = Absent]
    /\ UNCHANGED <<detectorVars, monitorVars, applied, emotion_calibration, current_mood_state, turn, rest,
                   conversations, emotion_history, outbox, turns>>

-----------------------------------------------------------------------------
(* handle_message and generate_and_send_audio, statement by statement *)

detectorButPc == <<now, emotion_cache, cache_lock, recent_emotions, iterDirty,
                   args, loc, result, frames, calls, callLimit, history,
                   cacheWrites, written, callLog>>

Event(ev, T) ==
    [event |-> ev, sid |-> turn[T].sid, n |-> turn[T].n, text |-> None,
     emotion |-> None, mood |-> None, personality |-> None, audio |-> None]

\* the first statement of get_cached_emotion, which a turn calls for the face
\* signal
FaceSignalEntrySampling == "check_lock"

FaceSignalEntry == "peek_lock"

\* not processing_flags.get(sid, True) is false: the turn goes on
PassesAlways(flag) == TRUE

Passes(flag) == flag # "False"

\* the thread that serves the next send_message: the first of the pool whose
\* last turn and audio task have returned
HasFreeHandler == \E T \in TurnThreads : ~InProgress(T)
FreeHandler ==
    IF HasFreeHandler
    THEN TurnPool[CHOOSE i \in 1..Len(TurnPool) :
                    /\ ~InProgress(TurnPool[i])
                    /\ \A j \in 1..(i - 1) : InProgress(TurnPool[j])]
    ELSE None

\* processing_flags[request.sid] = True; the message is stripped and an empty
\* one is answered with an error
HM_Begin(T, sid, m) ==
    /\ T = FreeHandler
    /\ connected[sid] = "open"
    /\ turns < MaxTurns
    /\ turns' = turns + 1
    /\ processing_flags' = [processing_flags EXCEPT ![sid] = "True"]
    /\ IF Strip(m).chars = "none"
       THEN /\ turn' = [turn EXCEPT ![T] =
                          [TurnInit EXCEPT !.n = turns + 1, !.sid = sid,
                                           !.msg = Strip(m), !.done = {"error"}]]
            /\ outbox' = outbox \cup
                             {[event |-> "error", sid |-> sid,
                               n |-> turns + 1,
                               text |-> "Empty message received",
                               emotion |-> None, mood |-> None,
                               personality |-> None, audio |-> None]}
            /\ UNCHANGED pc
       ELSE /\ turn' = [turn EXCEPT ![T] =
                          [TurnInit EXCEPT !.n = turns + 1, !.sid = sid,
                                           !.msg = Strip(m)]]
            /\ pc' = [pc EXCEPT ![T] = "hm_user"]
            /\ UNCHANGED outbox
    /\ UNCHANGED <<detectorButPc, monitorVars, applied, emotion_calibration, connected, user_sessions,
                   current_mood_state, rest, conversations, emotion_history>>

\* user_id = user_sessions.get(request.sid); if not user_id: error
HM_User(T) ==
    /\ pc[T] = "hm_user"
    /\ IF user_sessions[turn[T].sid] = None
       THEN /\ turn' = [turn EXCEPT ![T].done = @ \cup {"error"}]
            /\ outbox' = outbox \cup {[Event("error", T) EXCEPT
                                           !.text = "User not logged in"]}
            /\ pc' = [pc EXCEPT ![T] = "idle"]
       ELSE /\ turn' = [turn EXCEPT ![T].user = user_sessions[turn[T].sid]]
            /\ pc' = [pc EXCEPT ![T] = "hm_check1"]
            /\ UNCHANGED outbox
    /\ UNCHANGED <<detectorButPc, monitorVars, applied, emotion_calibration, connected, user_sessions,
                   processing_flags, current_mood_state, rest, conversations,
                   emotion_history, turns>>

\* if not processing_flags.get(sid, True): return -- checkpoint k of turn T,
\* run by thread th at statement here; next is where th goes on, stop the
\* stages the return performs on its way out
Checkpoint(th, T, k, here, next, stop) ==
    /\ pc[th] = here
    /\ LET flag == processing_flags[turn[T].sid] IN
       /\ turn' = [turn EXCEPT
             ![T].stoppedAt = IF flag = "False" THEN k ELSE @,
             ![T].passedAfterStop = @ \/ (Passes(flag) /\ turn[T].stopSeen),
             ![T].done = IF Passes(flag) THEN @ ELSE @ \cup stop]
       /\ pc' = [pc EXCEPT ![th] = IF Passes(flag) THEN next ELSE "idle"]
    /\ UNCHANGED <<detectorButPc, monitorVars, applied, emotion_calibration, connected, user_sessions,
                   processing_flags, current_mood_state, rest, conversations,
                   emotion_history, outbox, turns>>

\* the checkpoint after validation; then face_emotion, face_confidence =
\* get_cached_emotion()
HM_Check1(T) == Checkpoint(T, T, 1, "hm_check1", FaceSignalEntry, {})

\* analyze_voice_tone, combine_emotions, update_mood(emotion, "neutral")
HM_Fuse(T) ==
    /\ pc[T] = "hm_fuse"
    /\ LET voice == analyze_voice_tone(turn[T].msg)
           fused == combine_emotions(result[T].emotion, result[T].confidence,
                                     voice[1], voice[2])
       IN  /\ turn' = [turn EXCEPT
                 ![T].face = <<result[T].emotion, result[T].confidence>>,
                 ![T].emotion = fused[1], ![T].confidence = fused[2],
                 ![T].done = @ \cup {"fusion", "mood"}]
           /\ current_mood_state' =
                 update_mood(current_mood_state, fused[1], "neutral")
    /\ pc' = [pc EXCEPT ![T] = "hm_mood"]
    /\ UNCHANGED <<detectorButPc, monitorVars, applied, emotion_calibration, connected, user_sessions,
                   processing_flags, rest, conversations, emotion_history,
                   outbox, turns>>

HM_ReadMoodOfEmotion(T) ==
    /\ pc[T] = "hm_mood"
    /\ turn' = [turn EXCEPT
          ![T].mood = current_mood_state.combined_mood,
          ![T].persona = choose_personality(turn[T].emotion)]
    /\ pc' = [pc EXCEPT ![T] = "hm_context"]
    /\ UNCHANGED <<detectorButPc, monitorVars, applied, emotion_calibration, connected, user_sessions,
                   processing_flags, current_mood_state, rest, conversations,
                   emotion_history, outbox, turns>>

\* combined_mood = mood_state["combined_mood"]; choose_personality
HM_ReadMood(T) ==
    /\ pc[T] = "hm_mood"
    /\ turn' = [turn EXCEPT
          ![T].mood = current_mood_state.combined_mood,
          ![T].persona = choose_personality(current_mood_state.combined_mood)]
    /\ pc' = [pc EXCEPT ![T] = "hm_context"]
    /\ UNCHANGED <<detectorButPc, monitorVars, applied, emotion_calibration, connected, user_sessions,
                   processing_flags, current_mood_state, rest, conversations,
                   emotion_history, outbox, turns>>

\* memory.conversation_context: the messages of the last 10 exchanges of all
\* users (20 entries, two per exchange); add_conversation appends to it and
\* nothing reads it
conversation_context(rows) ==
    IF Len(rows) <= 10 THEN rows ELSE SubSeq(rows, Len(rows) - 9, Len(rows))

RecentConversationsOfAll(rows, user_id, limit) ==
    conversation_context(rows)

\* get_recent_conversations(user_id, limit), oldest first
RecentConversations(rows, user_id, limit) ==
    LET mine == SelectSeq(rows, LAMBDA r : r.user_id = user_id)
    IN  IF Len(mine) <= limit THEN mine
        ELSE SubSeq(mine, Len(mine) - limit + 1, Len(mine))

\* context = memory.get_context_for_ai(user_id, max_messages=50)
HM_Context(T) ==
    /\ pc[T] = "hm_context"
    /\ turn' = [turn EXCEPT ![T].context =
                  RecentConversations(conversations, turn[T].user,
                                      CONVERSATION_CONTEXT_LENGTH)]
    /\ pc' = [pc EXCEPT ![T] = "hm_check2"]
    /\ UNCHANGED <<detectorButPc, monitorVars, applied, emotion_calibration, connected, user_sessions,
                   processing_flags, current_mood_state, rest, conversations,
                   emotion_history, outbox, turns>>

\* the checkpoint before generation
HM_Check2(T) == Checkpoint(T, T, 2, "hm_check2", "hm_generate", {})

\* response_text = generate_response(...): a reply, or the apology when the
\* API call fails
HM_Generate(T, text) ==
    /\ pc[T] = "hm_generate"
    /\ turn' = [turn EXCEPT ![T].response = text,
                            ![T].done = @ \cup {"generation"}]
    /\ pc' = [pc EXCEPT ![T] = "hm_check3"]
    /\ UNCHANGED <<detectorButPc, monitorVars, applied, emotion_calibration, connected, user_sessions,
                   processing_flags, current_mood_state, rest, conversations,
                   emotion_history, outbox, turns>>

\* the checkpoint before sending the response
HM_Check3(T) == Checkpoint(T, T, 3, "hm_check3", "hm_emit", {})

\* what an emission after a stop adds to the turn's record
Emitted(T, ev, stage) ==
    [turn EXCEPT ![T].done = @ \cup {stage},
                 ![T].late = IF turn[T].passedAfterStop
                             THEN @ \cup {ev} ELSE @]

\* emit('message_response', {text, emotion, mood, personality})
HM_Emit(T) ==
    /\ pc[T] = "hm_emit"
    /\ outbox' = outbox \cup {[Event("message_response", T) EXCEPT
                                   !.text = turn[T].response,
                                   !.emotion = turn[T].emotion,
                                   !.mood = turn[T].mood,
                                   !.personality = turn[T].persona.name]}
    /\ turn' = Emitted(T, "message_response", "response")
    /\ pc' = [pc EXCEPT ![T] = "hm_spawn"]
    /\ UNCHANGED <<detectorButPc, monitorVars, applied, emotion_calibration, connected, user_sessions,
                   processing_flags, current_mood_state, rest, conversations,
                   emotion_history, turns>>

\* socketio.start_background_task(generate_and_send_audio, text, tone, sid)
HM_Spawn(T) ==
    /\ pc[T] = "hm_spawn"
    /\ pc' = [pc EXCEPT ![T] = "hm_conv", ![AudioOf[T]] = "au_check4"]
    /\ UNCHANGED <<detectorButPc, monitorVars, applied, emotion_calibration, turnVars>>

HM_ConvSharedUser(T) ==
    /\ pc[T] = "hm_conv"
    /\ conversations' = Append(conversations,
          [user_id |-> "u1", n |-> turn[T].n,
           user_message |-> turn[T].msg, bot_response |-> turn[T].response,
           emotion |-> turn[T].emotion, sentiment |-> "neutral",
           personality |-> turn[T].mood])
    /\ turn' = [turn EXCEPT ![T].done = @ \cup {"conv"}]
    /\ pc' = [pc EXCEPT ![T] = "hm_emorec"]
    /\ UNCHANGED <<detectorButPc, monitorVars, applied, emotion_calibration, connected, user_sessions,
                   processing_flags, current_mood_state, rest,
                   emotion_history, outbox, turns>>

\* memory.add_conversation(user_id, message, response, emotion, sentiment, mood)
HM_Conv(T) ==
    /\ pc[T] = "hm_conv"
    /\ conversations' = Append(conversations,
          [user_id |-> turn[T].user, n |-> turn[T].n,
           user_message |-> turn[T].msg, bot_response |-> turn[T].response,
           emotion |-> turn[T].emotion, sentiment |-> "neutral",
           personality |-> turn[T].mood])
    /\ turn' = [turn EXCEPT ![T].done = @ \cup {"conv"}]
    /\ pc' = [pc EXCEPT ![T] = "hm_emorec"]
    /\ UNCHANGED <<detectorButPc, monitorVars, applied, emotion_calibration, connected, user_sessions,
                   processing_flags, current_mood_state, rest,
                   emotion_history, outbox, turns>>

\* memory.add_emotion_record(user_id, emotion, confidence, mood); return
HM_EmoRec(T) ==
    /\ pc[T] = "hm_emorec"
    /\ emotion_history' = Append(emotion_history,
          [user_id |-> turn[T].user, n |-> turn[T].n,
           emotion |-> turn[T].emotion, confidence |-> turn[T].confidence,
           mood_state |-> turn[T].mood])
    /\ turn' = [turn EXCEPT ![T].done = @ \cup {"emorec"}]
    /\ pc' = [pc EXCEPT ![T] = "idle"]
    /\ UNCHANGED <<detectorButPc, monitorVars, applied, emotion_calibration, connected, user_sessions,
                   processing_flags, current_mood_state, rest, conversations,
                   outbox, turns>>

\* generate_and_send_audio: the checkpoint before speech synthesis
AU_Check4(T) == Checkpoint(AudioOf[T], T, 4, "au_check4", "au_speak", {})

\* tts_output.speak: speed_map, in hundredths
speed_map ==
    [sad |-> 85, calm |-> 90, neutral |-> 100, happy |-> 110,
     excited |-> 120, angry |-> 115, fear |-> 110]

\* the arguments of openai.audio.speech.create in speak(text, tone): the voice
\* is "nova" whatever the tone, the speed is speed_map.get(tone.lower(), 1.0)
speech_create(tone) ==
    [voice |-> "nova",
     speed |-> IF Lower(tone) \in DOMAIN speed_map
               THEN speed_map[Lower(tone)] ELSE 100]

\* audio_path = speak_async(text, tone) with tone = persona['tone']: a file,
\* or None when synthesis fails
AU_Speak(T, path) ==
    /\ pc[AudioOf[T]] = "au_speak"
    /\ turn' = [turn EXCEPT ![T].audio = path,
                            ![T].speech = speech_create(turn[T].persona.tone),
                            ![T].done = @ \cup {"synthesis"}]
    /\ pc' = [pc EXCEPT ![AudioOf[T]] = "au_check5"]
    /\ UNCHANGED <<detectorButPc, monitorVars, applied, emotion_calibration, connected, user_sessions,
                   processing_flags, current_mood_state, rest, conversations,
                   emotion_history, outbox, turns>>

\* the checkpoint before sending the audio; a cancelled task removes the file
AU_Check5(T) ==
    Checkpoint(AudioOf[T], T, 5, "au_check5",
               IF turn[T].audio = None THEN "idle" ELSE "au_emit", {"cleanup"})

\* socketio.emit('audio_ready', {audio_url}, room=sid)
AU_Emit(T) ==
    /\ pc[AudioOf[T]] = "au_emit"
    /\ outbox' = outbox \cup {[Event("audio_ready", T) EXCEPT
                                   !.audio = turn[T].audio]}
    /\ turn' = Emitted(T, "audio_ready", "audio_ready")
    /\ pc' = [pc EXCEPT ![AudioOf[T]] = "au_cleanup"]
    /\ UNCHANGED <<detectorButPc, monitorVars, applied, emotion_calibration, connected, user_sessions,
                   processing_flags, current_mood_state, rest, conversations,
                   emotion_history, turns>>

\* socketio.sleep(AUDIO_CLEANUP_DELAY); cleanup_audio_file(audio_path)
AU_Cleanup(T) ==
    /\ pc[AudioOf[T]] = "au_cleanup"
    /\ turn' = [turn EXCEPT ![T].done = @ \cup {"cleanup"}]
    /\ pc' = [pc EXCEPT ![AudioOf[T]] = "idle"]
    /\ UNCHANGED <<detectorButPc, monitorVars, applied, emotion_calibration, connected, user_sessions,
                   processing_flags, current_mood_state, rest, conversations,
                   emotion_history, outbox, turns>>

\* what generate_response and speak_async can return
Replies == {"reply", GenerationApology}
AudioPaths == {"file", None}

\* the steps of a turn whose generation returns one of texts and whose
\* synthesis returns one of paths
TurnStep(T, texts, paths) ==
    \/ HM_User(T) \/ HM_Check1(T) \/ HM_Fuse(T) \/ HM_ReadMood(T)
    \/ HM_Context(T) \/ HM_Check2(T) \/ HM_Check3(T)
    \/ \E text \in texts : HM_Generate(T, text)
    \/ HM_Emit(T) \/ HM_Spawn(T) \/ HM_Conv(T) \/ HM_EmoRec(T)
    \/ AU_Check4(T) \/ AU_Check5(T) \/ AU_Emit(T) \/ AU_Cleanup(T)
    \/ \E path \in paths : AU_Speak(T, path)

-----------------------------------------------------------------------------
(* POST /get_response and main.get_roomie_response *)

\* get_response: an empty message is answered 400; else get_roomie_response
\* begins with emotion, confidence = get_cached_emotion()
GR_Begin(G, m) ==
    /\ pc[G] = "idle"
    /\ turns < MaxTurns
    /\ turns' = turns + 1
    /\ IF m.chars = "none"
       THEN /\ rest' = [rest EXCEPT ![G] = [RestInit EXCEPT !.msg = m,
                                                           !.status = "400"]]
            /\ UNCHANGED pc
       ELSE /\ rest' = [rest EXCEPT ![G] = [RestInit EXCEPT !.msg = m]]
            /\ pc' = [pc EXCEPT ![G] = FaceSignalEntry]
    /\ UNCHANGED <<detectorButPc, monitorVars, applied, emotion_calibration, connected, user_sessions,
                   processing_flags, current_mood_state, turn, conversations,
                   emotion_history, outbox>>

\* mood_state, mood_changed = update_mood(emotion, "neutral")
GR_Mood(G) ==
    /\ pc[G] = "gr_mood"
    /\ rest' = [rest EXCEPT
          ![G].face = <<result[G].emotion, result[G].confidence>>]
    /\ current_mood_state' =
          update_mood(current_mood_state, result[G].emotion, "neutral")
    /\ pc' = [pc EXCEPT ![G] = "gr_persona"]
    /\ UNCHANGED <<detectorButPc, monitorVars, applied, emotion_calibration, connected, user_sessions,
                   processing_flags, turn, conversations, emotion_history,
                   outbox, turns>>

\* combined_mood = mood_state["combined_mood"]; choose_personality
GR_Persona(G) ==
    /\ pc[G] = "gr_persona"
    /\ rest' = [rest EXCEPT
          ![G].mood = current_mood_state.combined_mood,
          ![G].persona = choose_personality(current_mood_state.combined_mood)]
    /\ pc' = [pc EXCEPT ![G] = "gr_context"]
    /\ UNCHANGED <<detectorButPc, monitorVars, applied, emotion_calibration, connected, user_sessions,
                   processing_flags, current_mood_state, turn, conversations,
                   emotion_history, outbox, turns>>

\* memory.get_context_for_ai(max_messages=...): the call lacks user_id and
\* raises TypeError; the except clause returns the apology and no audio
GR_Context(G) ==
    /\ pc[G] = "gr_context"
    /\ rest' = [rest EXCEPT ![G].response = RoomieApology,
                            ![G].audio = None, ![G].status = "200"]
    /\ pc' = [pc EXCEPT ![G] = "idle"]
    /\ UNCHANGED <<detectorButPc, monitorVars, applied, emotion_calibration, connected, user_sessions,
                   processing_flags, current_mood_state, turn, conversations,
                   emotion_history, outbox, turns>>

RestStep(G) == GR_Mood(G) \/ GR_Persona(G) \/ GR_Context(G)

-----------------------------------------------------------------------------
(* The smoothing window on its own: one sampler, as a monitor loop calls it *)

SmoothFrames ==
    {[dom |-> "happy", score |-> 90, neutral |-> 5, happy |-> 90],
     [dom |-> "sad", score |-> 90, neutral |-> 5, happy |-> 2],
     [dom |-> "angry", score |-> 60, neutral |-> 30, happy |-> 5]}

InitSmooth == InitDetector(SmoothFrames, MaxSamples) /\ InitMonitors /\ InitTurns

NextSmooth ==
    \/ DetectBegin("S1", TRUE, None)
    \/ CapOpen("S1") \/ CapRead("S1") \/ CapRelease("S1")
    \/ Classify("S1") \/ AppendSample("S1") \/ IterStart("S1") \/ IterEnd("S1")
    \/ WriteAcquire("S1") \/ WriteCache("S1")

SpecSmooth == InitSmooth /\ [][NextSmooth]_vars

(* What the claims about the window say, stated on the window itself *)

WinLabels(w) == {w[i][1] : i \in 1..Len(w)}

Occ(w, e) == {i \in 1..Len(w) : w[i][1] = e}

RECURSIVE SumAt(_, _)
SumAt(w, I) ==
    IF I = {} THEN 0
    ELSE LET i == CHOOSE j \in I : TRUE IN w[i][2] + SumAt(w, I \ {i})

\* mean confidence of a <= mean confidence of b, over their occurrences in w
MeanLE(w, a, b) ==
    SumAt(w, Occ(w, a)) * Cardinality(Occ(w, b))
        <= SumAt(w, Occ(w, b)) * Cardinality(Occ(w, a))

\* the mean confidence of e in w is below the bound c
MeanBelow(w, e, c) == SumAt(w, Occ(w, e)) < c * Cardinality(Occ(w, e))

FirstAt(w, e) == CHOOSE i \in Occ(w, e) : \A j \in Occ(w, e) : i <= j

IsStable(w, s) ==
    /\ s \in WinLabels(w)
    /\ \A e \in WinLabels(w) :
          /\ MeanLE(w, e, s)
          /\ MeanLE(w, s, e) => FirstAt(w, s) <= FirstAt(w, e)

LastN(h, n) == SubSeq(h, (IF Len(h) > n THEN Len(h) - n ELSE 0) + 1, Len(h))

\* C9: the stable label a call computes is the label of maximal mean confidence
\* over its occurrences in the window, which holds the last 8 samples appended;
\* among labels of equal mean the one occurring first in the window wins.
C9_StableIsArgmax ==
    \A t \in Threads :
        pc[t] = "write_lock" =>
            /\ recent_emotions = LastN(history, WindowMax)
            /\ IsStable(recent_emotions, loc[t].stable)

\* a call has computed its stable label on a window that has evicted a sample
\* and in which another label ties with the winner
C9_Witness ==
    /\ pc["S1"] = "write_lock"
    /\ Len(history) > WindowMax
    /\ \E e \in WinLabels(recent_emotions) \ {loc["S1"].stable} :
          /\ MeanLE(recent_emotions, e, loc["S1"].stable)
          /\ MeanLE(recent_emotions, loc["S1"].stable, e)

-----------------------------------------------------------------------------
(* One caller of detect_emotion_sync with every argument combination: both   *)
(* cache write sites and the cache-hit return                                 *)

InitPersonal == InitDetector(SmoothFrames, 2 * MaxCalls) /\ InitMonitors /\ InitTurns

NextPersonal ==
    \/ \E b \in BOOLEAN, uid \in {None} \cup DetectUsers : DetectBegin("S1", b, uid)
    \/ DetectStep("S1")

SpecPersonal == InitPersonal /\ [][NextPersonal]_vars

\* C10: when the winning label's mean confidence is below the threshold the call
\* returns neutral and writes neutral to the cache, and no cache entry holds a
\* non-neutral label with a confidence below the threshold.
C10_LowConfidenceIsNeutral ==
    /\ [](emotion_cache.emotion # "neutral"
            => emotion_cache.confidence >= Pct(ThresholdPct))
    /\ [][\A t \in Threads :
            (/\ pc[t] = "write" /\ pc'[t] = "idle"
             /\ MeanBelow(recent_emotions, loc[t].stable, Pct(ThresholdPct)))
            => /\ emotion_cache'.emotion = "neutral"
               /\ result'[t].kind = "value"
               /\ result'[t].emotion = "neutral"]_vars

\* a call has returned and cached neutral although the window's winner is not
\* neutral: its mean confidence is below the threshold
C10_Witness ==
    /\ pc["S1"] = "idle"
    /\ result["S1"].kind = "value" /\ result["S1"].emotion = "neutral"
    /\ emotion_cache.emotion = "neutral" /\ emotion_cache.confidence > 0
    /\ emotion_cache.confidence = result["S1"].confidence
    /\ \E s \in WinLabels(recent_emotions) \ {"neutral"} :
          /\ IsStable(recent_emotions, s)
          /\ MeanBelow(recent_emotions, s, Pct(ThresholdPct))
          /\ ~MeanBelow(recent_emotions, s, emotion_cache.confidence)
          /\ MeanBelow(recent_emotions, s, emotion_cache.confidence + 1)

-----------------------------------------------------------------------------
(* The cache's time to live: one client calling detect_emotion_sync again    *)
(* and again while time passes                                                *)

CacheFrames ==
    {[dom |-> "happy", score |-> 90, neutral |-> 5, happy |-> 90],
     [dom |-> "sad", score |-> 85, neutral |-> 5, happy |-> 2]}

\* the module as imported, or as a monitor loop's first sample left it
InitCache ==
    /\ \/ InitDetector(CacheFrames, MaxCalls) /\ InitMonitors
       \/ /\ \E f \in CacheFrames : InitSampled(CacheFrames, 1 + MaxCalls, f)
          /\ InitServerUp
    /\ InitTurns

NextCache ==
    \/ \E b \in BOOLEAN : DetectBegin("K1", b, None)
    \/ CheckAcquire("K1") \/ CheckNow("K1") \/ HitEmotion("K1")
    \/ HitConfidence("K1")
    \/ CapOpen("K1") \/ CapRead("K1") \/ CapRelease("K1")
    \/ Classify("K1") \/ AppendSample("K1") \/ IterStart("K1") \/ IterEnd("K1")
    \/ WriteAcquire("K1") \/ WriteCache("K1")
    \/ Tick

SpecCache == InitCache /\ [][NextCache]_vars

Pair(r) == <<r.emotion, r.confidence>>

\* a logged call that did not bypass the cache and found the entry it checked
\* less than TTL seconds old
CheckedFresh(c) ==
    ~c.bypass /\ c.t0 - c.seen.timestamp < EMOTION_CACHE_TTL

\* C1 as stated: any two calls with bypass_cache=False made within TTL seconds
\* of each other return the identical pair, and the second neither captures nor
\* classifies.
C1_AsStated ==
    \A i, j \in 1..Len(callLog) :
        (/\ i < j
         /\ ~callLog[i].bypass /\ ~callLog[j].bypass
         /\ callLog[j].t0 - callLog[i].t0 < EMOTION_CACHE_TTL)
        => /\ Pair(callLog[i]) = Pair(callLog[j])
           /\ ~callLog[j].captured /\ ~callLog[j].classified

\* C1 (amended): a call with bypass_cache=False whose cache check runs less than
\* TTL seconds after the cache entry's timestamp returns that entry's pair and
\* neither captures nor classifies; two such calls return the identical pair
\* when no cache write happens between their checks.
C1_FreshHitReturnsEntry ==
    /\ \A i \in 1..Len(callLog) :
          CheckedFresh(callLog[i]) =>
              /\ Pair(callLog[i]) = Pair(callLog[i].seen)
              /\ ~callLog[i].captured /\ ~callLog[i].classified
    /\ \A i, j \in 1..Len(callLog) :
          (/\ CheckedFresh(callLog[i]) /\ CheckedFresh(callLog[j])
           /\ callLog[i].wv = callLog[j].wv)
          => Pair(callLog[i]) = Pair(callLog[j])

\* two cache hits on one written entry, seconds apart
C1_Witness ==
    \E i, j \in 1..Len(callLog) :
        /\ i < j
        /\ CheckedFresh(callLog[i]) /\ CheckedFresh(callLog[j])
        /\ callLog[i].wv = callLog[j].wv /\ callLog[i].wv > 0
        /\ callLog[i].t0 < callLog[j].t0
        /\ Pair(callLog[j]) = Pair(callLog[i])
        /\ callLog[j].emotion # "neutral"

-----------------------------------------------------------------------------
(* Concurrent callers of detect_emotion_sync and of get_cached_emotion       *)

InitDetect ==
    /\ \/ InitDetector(CacheFrames, MaxCalls) /\ InitMonitors
       \/ /\ \E f \in CacheFrames : InitSampled(CacheFrames, 1 + MaxCalls, f)
          /\ InitServerUp
    /\ InitTurns

NextDetect ==
    \/ \E t \in Samplers, b \in BOOLEAN, uid \in {None} \cup DetectUsers :
          DetectBegin(t, b, uid)
    \/ \E t \in Samplers : DetectStep(t)
    \/ \E t \in Readers : GetCachedBegin(t) \/ GetCachedStep(t)

SpecDetect == InitDetect /\ [][NextDetect]_vars

\* C2: whatever a reader of the cache returns (get_cached_emotion, or the
\* cache-hit return of detect_emotion_sync) is the (label, confidence) of one
\* single entry, the initial one or one written whole by a writer: the entry
\* the reader found when it took the lock and whose timestamp it checked.
C2_NoTornRead ==
    \A t \in Threads :
        /\ (result[t].kind = "value" /\ result[t].via \in {"hit", "peek"})
           => /\ Pair(result[t]) = Pair(result[t].seen)
              /\ result[t].seen \in written
        /\ pc[t] \in {"hit_confidence", "peek_confidence"}
           => /\ loc[t].emotion = loc[t].seen.emotion
              /\ emotion_cache = loc[t].seen

\* a reader returned a written entry that a later write has replaced, and a
\* sampler returned from its cache-hit branch
C2_Witness ==
    /\ \E r \in Readers :
          /\ result[r].kind = "value" /\ result[r].via = "peek"
          /\ result[r].seen.timestamp > 0
          /\ emotion_cache.emotion # result[r].emotion
    /\ \E t \in Samplers : result[t].kind = "value" /\ result[t].via = "hit"
    /\ cacheWrites >= 2

-----------------------------------------------------------------------------
(* The running server: app.py is imported, clients connect, and the monitor  *)
(* loops sample                                                               *)

InitServer == InitDetector(CacheFrames, MaxCalls) /\ InitMonitors /\ InitTurns

NextServer ==
    \/ AppImport
    \/ \E h \in Handlers :
          Connect(h) \/ ConnAssign(h) \/ ConnStart(h) \/ StartSpawn(h)
    \/ \E t \in LoopThreads :
          \/ LoopIterate(t)
          \/ CapOpen(t) \/ CapRead(t) \/ CapRelease(t)
          \/ Classify(t) \/ AppendSample(t) \/ IterStart(t) \/ IterEnd(t)
          \/ WriteAcquire(t) \/ WriteCache(t)

SpecServer == InitServer /\ [][NextServer]_vars

\* C3: the window is guarded: while one sampler is between its append and the
\* end of its computation of the stable label, no other sampler is, so no
\* append interleaves with another sampler's iteration.
C3_SmoothingIsAtomic ==
    Cardinality({t \in Threads : pc[t] \in {"iter", "iter_end"}}) <= 1

\* C4: at most one sampler is between opening the camera and releasing it.
C4_OneCaptureInFlight ==
    Cardinality({t \in Threads : pc[t] \in {"cap_read", "cap_release"}}) <= 1

\* C5: at most one background sampling loop is running.
C5_OneSamplingLoop ==
    Cardinality({t \in Threads : LoopAlive(t)}) <= 1

-----------------------------------------------------------------------------
(* Turns over socket sessions: connect, log in, send_message, stop_response *)
(* and disconnect in any order, the handlers running concurrently.  The     *)
(* monitor loops are not scheduled; the cache holds what they left.         *)

TurnFrames == {[dom |-> "happy", score |-> 90, neutral |-> 5, happy |-> 90]}

TurnMessages == {MsgSad}
TurnSids == {"s1"}
TurnUsers == {"u1"}

InitTurn ==
    /\ \E f \in TurnFrames : InitSampled(TurnFrames, 1, f)
    /\ InitServerUp
    /\ InitTurns

NextTurn ==
    \/ \E sid \in TurnSids : SessionOpen(sid)
    \/ \E sid \in TurnSids, u \in TurnUsers : Login(sid, u)
    \/ \E sid \in TurnSids : StopResponse(sid)
    \/ \E sid \in TurnSids : Disconnect(sid)
    \/ \E T \in TurnThreads, sid \in TurnSids, m \in TurnMessages :
          HM_Begin(T, sid, m)
    \/ \E T \in TurnThreads :
          GetCachedStep(T) \/ TurnStep(T, {"reply"}, {"file"})

SpecTurn == InitTurn /\ [][NextTurn]_vars

\* the stages of a turn that come after checkpoint k
Later(k) ==
    CASE k = 1 -> {"generation", "response", "conv", "emorec", "synthesis",
                   "audio_ready"}
      [] k = 2 -> {"generation", "response", "conv", "emorec", "synthesis",
                   "audio_ready"}
      [] k = 3 -> {"response", "conv", "emorec", "synthesis", "audio_ready"}
      [] k = 4 -> {"synthesis", "audio_ready"}
      [] k = 5 -> {"audio_ready"}
      [] OTHER -> {}

\* C7: a turn whose checkpoint k read the cancel flag as False has returned
\* there: its thread is back at rest and none of the stages after checkpoint k
\* (generation, message_response, the two persistence writes, synthesis,
\* audio_ready, in this order) has been executed.
C7_StopsAtCheckpoint ==
    \A T \in TurnThreads :
        turn[T].stoppedAt > 0 =>
            /\ turn[T].done \cap Later(turn[T].stoppedAt) = {}
            /\ turn[T].stoppedAt <= 3 => ~InProgress(T)
            /\ turn[T].stoppedAt >= 4 => pc[AudioOf[T]] = "idle"

\* a turn cancelled before speech synthesis, after its response was sent
C7_Witness ==
    \E T \in TurnThreads :
        /\ turn[T].stoppedAt = 4
        /\ "response" \in turn[T].done
        /\ \E U \in TurnThreads : turn[U].stoppedAt = 2

\* C8: a turn that was in progress when stop_response was handled for its
\* session emits no message_response and no audio_ready after a checkpoint
\* that followed the stop.
C8_NoEmissionAfterStop ==
    \A T \in TurnThreads : turn[T].late = {}

-----------------------------------------------------------------------------
(* The face signal of a turn: one socket turn and one REST turn at a time,  *)
(* while a monitor loop samples.  The entry the module starts with has      *)
(* timestamp 0 and is older than the TTL from the start.                    *)

FaceFrames == {[dom |-> "happy", score |-> 90, neutral |-> 5, happy |-> 90]}

FaceThreads == {LoopPool[1], TurnPool[1]} \cup RestThreads

InitFace == InitDetector(FaceFrames, FaceCalls) /\ InitServerUp /\ InitTurns

NextFace ==
    \/ \E sid \in TurnSids : SessionOpen(sid)
    \/ \E sid \in TurnSids, u \in TurnUsers : Login(sid, u)
    \/ \E sid \in TurnSids : HM_Begin(TurnPool[1], sid, MsgHello)
    \/ TurnStep(TurnPool[1], {"reply"}, AudioPaths)
    \/ \E G \in RestThreads : GR_Begin(G, MsgHello) \/ RestStep(G)
    \/ LoopIterate(LoopPool[1])
    \/ \E t \in FaceThreads :
          \/ GetCachedStep(t)
          \/ CapOpen(t) \/ CapRead(t) \/ CapRelease(t)
          \/ Classify(t) \/ AppendSample(t) \/ IterStart(t) \/ IterEnd(t)
          \/ WriteAcquire(t) \/ WriteCache(t)

SpecFace == InitFace /\ [][NextFace]_vars

\* the statements of detect_emotion_sync
DetectPcs == {"check_lock", "check_now", "hit_emotion", "hit_confidence",
              "capture", "cap_read", "cap_release", "personal", "pwrite_lock",
              "pwrite", "classify", "append", "iter", "iter_end",
              "write_lock", "write"}

\* C6: a turn (handle_message or get_roomie_response) is never inside
\* detect_emotion_sync; no step of a turn changes the cache or the smoothing
\* window; the pair its get_cached_emotion returns is the cache entry of that
\* moment, with no condition on the entry's age, and that pair is the face
\* signal the turn goes on with.
C6_FaceSignalIsCachePeek ==
    /\ [](\A t \in TurnThreads \cup RestThreads : pc[t] \notin DetectPcs)
    /\ [][\A t \in TurnThreads \cup RestThreads :
            pc'[t] # pc[t] =>
              /\ emotion_cache' = emotion_cache
              /\ recent_emotions' = recent_emotions
              /\ history' = history
              /\ cacheWrites' = cacheWrites
              /\ pc[t] = "peek_confidence" =>
                    /\ result'[t].kind = "value"
                    /\ Pair(result'[t]) = Pair(emotion_cache)
              /\ (pc[t] = "hm_fuse" /\ t \in TurnThreads) =>
                    turn'[t].face = Pair(result[t])
              /\ (pc[t] = "gr_mood" /\ t \in RestThreads) =>
                    rest'[t].face = Pair(result[t])]_vars

\* a socket turn went on with the starting entry, which was older than the
\* TTL when it was read, and a REST turn with an entry a monitor loop wrote
C6_Witness ==
    /\ \E T \in TurnThreads :
          /\ "response" \in turn[T].done
          /\ turn[T].face = Pair(CacheInit)
          /\ now - CacheInit.timestamp >= EMOTION_CACHE_TTL
    /\ \E G \in RestThreads :
          /\ rest[G].status = "200"
          /\ rest[G].face = Pair(emotion_cache)
          /\ emotion_cache.timestamp > 0

-----------------------------------------------------------------------------
(* The bias correction on its own: one sampler classifying one kind of      *)
(* frame.  A frame is what DeepFace reports: the dominant label, its score, *)
(* and the neutral and happy scores, none above the dominant one.  The      *)
(* scores are inputs of the arithmetic and are not made to add up to 100.   *)

BiasScores == {0, 45, 60, 61, 64, 65, 66, 75, 79, 80, 81, 90}

BiasFrames ==
    {f \in [dom : {"fear", "sad", "angry", "happy"}, score : BiasScores,
            neutral : BiasScores, happy : BiasScores] :
        /\ f.score >= 45
        /\ f.neutral <= f.score /\ f.happy <= f.score
        /\ f.dom = "happy" => f.happy = f.score}

InitBias ==
    /\ \E f \in BiasFrames : InitDetector({f}, MaxCalls)
    /\ InitMonitors
    /\ InitTurns

NextBias ==
    \/ DetectBegin("S1", TRUE, None)
    \/ CapOpen("S1") \/ CapRead("S1") \/ CapRelease("S1")
    \/ Classify("S1") \/ AppendSample("S1") \/ IterStart("S1") \/ IterEnd("S1")
    \/ WriteAcquire("S1") \/ WriteCache("S1")

SpecBias == InitBias /\ [][NextBias]_vars

\* a score is within 0.15 of the raw confidence c
Within15(score, c) == c - score < 15

\* the sample the claim expects of frame f, scores in percent
BiasExpected(f) ==
    IF f.dom \in {"fear", "sad"} /\ f.score < 80
    THEN IF Within15(f.neutral, f.score) THEN <<"neutral", f.neutral>>
         ELSE IF Within15(f.happy, f.score) THEN <<"happy", f.happy>>
         ELSE <<f.dom, f.score>>
    ELSE <<f.dom, f.score>>

\* C11: the sample a classification hands to the smoothing window is the raw
\* (label, score), except for raw fear or sad below 0.80: then it is
\* (neutral, neutral score) when the neutral score is within 0.15 of the raw
\* score, otherwise (happy, happy score) when the happy score is, otherwise
\* the raw one.
C11_BiasCorrection ==
    \A t \in Samplers :
        pc[t] = "append" =>
            \A f \in frames :
                /\ loc[t].emotion = BiasExpected(f)[1]
                /\ loc[t].confidence = Pct(BiasExpected(f)[2])

\* raw fear at 0.75 with neutral score 0.65 became (neutral, 0.65)
C11_Witness ==
    /\ \E f \in frames : f.dom = "fear" /\ f.score = 75 /\ f.neutral = 65
    /\ \E t \in Samplers :
          /\ pc[t] = "append"
          /\ loc[t].emotion = "neutral" /\ loc[t].confidence = Pct(65)

-----------------------------------------------------------------------------
(* The capacity of the smoothing window, under SpecSmooth *)

\* C12: the window never holds more than 8 samples, and every change of it is
\* one append at its end which, when it was full, drops its oldest sample and
\* keeps the others in their order.
C12_WindowIsBoundedFifo ==
    /\ [](Len(recent_emotions) <= WindowMax)
    /\ [][recent_emotions' # recent_emotions =>
            /\ Len(history') = Len(history) + 1
            /\ LET x == history'[Len(history')] IN
               IF Len(recent_emotions) = WindowMax
               THEN /\ Len(recent_emotions') = WindowMax
                    /\ \A i \in 1..(WindowMax - 1) :
                          recent_emotions'[i] = recent_emotions[i + 1]
                    /\ recent_emotions'[WindowMax] = x
               ELSE recent_emotions' = recent_emotions \o <<x>>]_vars

\* the window is full and its first sample is no longer the first ever appended
C12_Witness ==
    /\ Len(recent_emotions) = WindowMax
    /\ Len(history) = WindowMax + 1
    /\ recent_emotions[1] = history[2]
    /\ recent_emotions[1] # history[1]
    /\ recent_emotions[WindowMax] = history[WindowMax + 1]
-----------------------------------------------------------------------------
(* combine_emotions called directly on a grid of inputs *)

FusionLabels == {"happy", "sad", "neutral"}

\* Confidences in percent.  The only pair whose weighted values are equal is
\* face 0.4 with voice 0.6, and 0.6 * 0.4 and 0.4 * 0.6 are the same product
\* of the same two floats, so the tie is exact in the program as well.
FusionFaceConfs == {0, 30, 39, 40, 50, 80, 100}
FusionVoiceConfs == {0, 30, 39, 40, 50, 60, 80, 90, 100}

InitFusion == InitDetector({}, 0) /\ InitMonitors /\ InitTurns

ApplyCombineEmotions(fe, fc, ve, vc) ==
    /\ applied' = [fn |-> "combine_emotions", args |-> <<fe, fc, ve, vc>>,
                   out |-> combine_emotions(fe, fc, ve, vc)]
    /\ UNCHANGED <<detectorVars, monitorVars, turnVars, emotion_calibration>>

NextFusion ==
    \E fe \in FusionLabels, ve \in FusionLabels,
       fc \in FusionFaceConfs, vc \in FusionVoiceConfs :
        ApplyCombineEmotions(fe, Pct(fc), ve, Pct(vc))

SpecFusion == InitFusion /\ [][NextFusion]_vars

Fused == applied.fn = "combine_emotions"
FaceOf(a) == <<a[1], a[2]>>
VoiceOf(a) == <<a[3], a[4]>>

\* C13 as stated: whichever confidence is below 0.4, the result is the other
\* signal, unchanged.
C13_EitherWeakGivesOther ==
    Fused =>
        /\ applied.args[2] < Pct(40) => applied.out = VoiceOf(applied.args)
        /\ applied.args[4] < Pct(40) => applied.out = FaceOf(applied.args)

\* C13: a face confidence below 0.4 gives the voice signal unchanged; with a
\* face confidence of at least 0.4, a voice confidence below 0.4 gives the
\* face signal unchanged.
C13_WeakSignalDiscarded ==
    Fused =>
        /\ applied.args[2] < Pct(40) => applied.out = VoiceOf(applied.args)
        /\ applied.args[2] >= Pct(40) /\ applied.args[4] < Pct(40) =>
              applied.out = FaceOf(applied.args)

\* face (sad, 0.3) with voice (happy, 0.9) gave (happy, 0.9)
C13_Witness ==
    /\ applied.args = <<"sad", Pct(30), "happy", Pct(90)>>
    /\ applied.out = <<"happy", Pct(90)>>


\* both confidences are at least 0.4
BothStrong(a) == a[2] >= Pct(40) /\ a[4] >= Pct(40)

\* (face_conf * 0.6 + voice_conf * 0.4) * 1.2, times 100
Boosted100(a) == (a[2] * 6 + a[4] * 4) * 12

-----------------------------------------------------------------------------
(* combine_moods and update_mood called directly, in any order *)

MoodFaces == {"angry", "sad", "fear", "happy", "surprise", "disgust", "neutral"}
MoodVoices == {"negative", "sad", "positive", "joy", "neutral", "happy"}

InitMood == InitDetector({}, 0) /\ InitMonitors /\ InitTurns

ApplyCombineMoods(fe, vs) ==
    /\ applied' = [fn |-> "combine_moods", args |-> <<fe, vs>>,
                   out |-> <<combine_moods(fe, vs)>>]
    /\ UNCHANGED <<detectorVars, monitorVars, turnVars, emotion_calibration>>

\* one call of update_mood: it returns (current_mood_state, changed)
ApplyUpdateMood(fe, vs) ==
    /\ current_mood_state' = update_mood(current_mood_state, fe, vs)
    /\ applied' = [fn |-> "update_mood", args |-> <<fe, vs>>,
                   out |-> <<current_mood_state',
                             mood_changed(current_mood_state, fe, vs)>>]
    /\ UNCHANGED <<detectorVars, monitorVars, connected, user_sessions,
                   processing_flags, turn, rest, conversations,
                   emotion_history, outbox, turns, emotion_calibration>>

NextMood ==
    \E fe \in MoodFaces, vs \in MoodVoices :
        ApplyCombineMoods(fe, vs) \/ ApplyUpdateMood(fe, vs)

SpecMood == InitMood /\ [][NextMood]_vars

NegativeFace(fe) == fe = "angry" \/ fe = "sad" \/ fe = "fear"
NegativeVoice(vs) == vs = "negative" \/ vs = "sad"
PositiveFace(fe) == fe = "happy" \/ fe = "surprise"
PositiveVoice(vs) == vs = "positive" \/ vs = "joy"

\* the mood the priority rules give
RuleMood(fe, vs) ==
    CHOOSE m \in {"low", "cheerful", "neutral"} :
        /\ m = "low" <=> NegativeFace(fe) \/ NegativeVoice(vs)
        /\ m = "cheerful" <=>
              /\ ~(NegativeFace(fe) \/ NegativeVoice(vs))
              /\ PositiveFace(fe) \/ PositiveVoice(vs)

\* C16: combine_moods gives low whenever the face is angry, sad or fear or
\* the voice is negative or sad, whatever the other signal; otherwise
\* cheerful whenever the face is happy or surprise or the voice is positive
\* or joy; otherwise neutral.
C16_MoodPriority ==
    applied.fn = "combine_moods" =>
        LET fe == applied.args[1]
            vs == applied.args[2]
            mood == applied.out[1]
        IN  /\ NegativeFace(fe) \/ NegativeVoice(vs) => mood = "low"
            /\ ~(NegativeFace(fe) \/ NegativeVoice(vs))
                 /\ (PositiveFace(fe) \/ PositiveVoice(vs)) => mood = "cheerful"
            /\ ~(NegativeFace(fe) \/ NegativeVoice(vs))
                 /\ ~(PositiveFace(fe) \/ PositiveVoice(vs)) => mood = "neutral"

\* a happy face with a negative voice gave low
C16_Witness ==
    /\ applied.fn = "combine_moods"
    /\ applied.args = <<"happy", "negative">>
    /\ applied.out = <<"low">>

\* C17: every call of update_mood returns changed = TRUE exactly when the mood
\* it computes differs from the combined_mood stored before the call
\* (neutral at the start), and leaves the computed mood stored.
C17_ChangedIffMoodDiffers ==
    [][applied'.fn = "update_mood" /\ applied' # applied =>
          LET new_mood == RuleMood(applied'.args[1], applied'.args[2]) IN
          /\ applied'.out[2] = (new_mood # current_mood_state.combined_mood)
          /\ current_mood_state'.combined_mood = new_mood
          /\ applied'.out[1] = current_mood_state']_vars

\* a call that computed the stored, non-initial mood again returned FALSE
C17_Witness ==
    /\ applied.fn = "update_mood"
    /\ applied.out[2] = FALSE
    /\ current_mood_state.combined_mood = "low"
    /\ RuleMood(applied.args[1], applied.args[2]) = "low"
    /\ <<applied.args[1], applied.args[2]>> #
          <<current_mood_state.face_emotion, current_mood_state.voice_sentiment>>

-----------------------------------------------------------------------------
(* The two persona lookups called directly, between calls of update_mood *)

PersonaMoods == {"cheerful", "low", "neutral", "stressed", "angry",
                 "Cheerful", "LOW", "Stressed", "NEUTRAL", "excited", "calm", ""}

CataloguedMoods == {"cheerful", "low", "neutral", "stressed", "angry"}

InitPersona == InitDetector({}, 0) /\ InitMonitors /\ InitTurns

ApplyChoosePersonality(mood) ==
    /\ applied' = [fn |-> "choose_personality", args |-> <<mood>>,
                   out |-> <<choose_personality(mood)>>]
    /\ UNCHANGED <<detectorVars, monitorVars, turnVars, emotion_calibration>>

ApplyPersonalitiesGet(personality) ==
    /\ applied' = [fn |-> "PERSONALITIES.get", args |-> <<personality>>,
                   out |-> <<PERSONALITIES_get(personality)>>]
    /\ UNCHANGED <<detectorVars, monitorVars, turnVars, emotion_calibration>>

NextPersona ==
    \/ \E fe \in MoodFaces, vs \in MoodVoices : ApplyUpdateMood(fe, vs)
    \/ \E mood \in PersonaMoods :
          ApplyChoosePersonality(mood) \/ ApplyPersonalitiesGet(mood)

SpecPersona == InitPersona /\ [][NextPersona]_vars

Looked == applied.fn \in {"choose_personality", "PERSONALITIES.get"}

\* the catalogue a lookup reads
CatalogueOf(fn) ==
    IF fn = "choose_personality" THEN PERSONALITY_PROFILES ELSE PERSONALITIES

\* the lookup left every variable of the program as it was
LookupChangesNothing ==
    [][applied'.fn \in {"choose_personality", "PERSONALITIES.get"}
         /\ applied' # applied => UNCHANGED <<detectorVars, monitorVars, turnVars, emotion_calibration>>]_vars

\* C18 as stated: both lookups give the persona catalogued under the mood
\* when it is one of the five catalogued strings and the neutral persona for
\* every other string.
C18_ExactLookup ==
    Looked =>
        applied.out[1] =
            IF applied.args[1] \in CataloguedMoods
            THEN CatalogueOf(applied.fn)[applied.args[1]]
            ELSE CatalogueOf(applied.fn)["neutral"]

\* C18: choose_personality gives the persona catalogued under the lower-cased
\* mood when that is one of the five catalogued strings, the PERSONALITIES
\* lookup the one catalogued under the mood as given, and both give the
\* neutral persona otherwise; a lookup changes no state.
C18_TotalStatelessLookup ==
    /\ [](Looked =>
            LET key == IF applied.fn = "choose_personality"
                       THEN Lower(applied.args[1]) ELSE applied.args[1]
            IN  applied.out[1] =
                    IF key \in CataloguedMoods
                    THEN CatalogueOf(applied.fn)[key]
                    ELSE CatalogueOf(applied.fn)["neutral"])
    /\ LookupChangesNothing

\* choose_personality("LOW") gave Luna while the stored mood was cheerful
C18_Witness ==
    /\ applied.fn = "choose_personality"
    /\ applied.args = <<"LOW">>
    /\ applied.out[1].name = "Luna"
    /\ current_mood_state.combined_mood = "cheerful"


-----------------------------------------------------------------------------
(* Turns of one logged-in session whose generation call may fail *)

InitApology ==
    /\ \E f \in TurnFrames : InitSampled(TurnFrames, 1, f)
    /\ InitServerUp
    /\ InitTurns

NextApology ==
    \/ \E sid \in TurnSids : SessionOpen(sid)
    \/ \E sid \in TurnSids, u \in TurnUsers : Login(sid, u)
    \/ \E T \in TurnThreads, sid \in TurnSids, m \in TurnMessages :
          HM_Begin(T, sid, m)
    \/ \E T \in TurnThreads :
          GetCachedStep(T) \/ TurnStep(T, Replies, {"file"})

SpecApology == InitApology /\ [][NextApology]_vars

\* the generation call of turn T failed
GenerationFailed(T) ==
    "generation" \in turn[T].done /\ turn[T].response = GenerationApology

\* C19: a turn whose generation call failed answers with the fixed apology
\* text, and no speech is synthesised and no audio_ready is sent for it.
C19_ApologyWithoutAudio ==
    \A T \in TurnThreads :
        GenerationFailed(T) =>
            /\ \A e \in outbox :
                  e.event = "message_response" /\ e.n = turn[T].n =>
                      e.text = GenerationApology
            /\ "synthesis" \notin turn[T].done
            /\ "audio_ready" \notin turn[T].done
            /\ \A e \in outbox : ~(e.event = "audio_ready" /\ e.n = turn[T].n)

-----------------------------------------------------------------------------
(* Turns with empty, blank and ordinary messages, before and after login *)

RejectMessages == {MsgNone, MsgBlank, MsgSad}

InitReject ==
    /\ \E f \in TurnFrames : InitSampled(TurnFrames, 1, f)
    /\ InitServerUp
    /\ InitTurns

NextReject ==
    \/ \E sid \in TurnSids : SessionOpen(sid)
    \/ \E sid \in TurnSids, u \in TurnUsers : Login(sid, u)
    \/ \E T \in TurnThreads, sid \in TurnSids, m \in RejectMessages :
          HM_Begin(T, sid, m)
    \/ \E T \in TurnThreads :
          GetCachedStep(T) \/ TurnStep(T, {"reply"}, {"file"})

SpecReject == InitReject /\ [][NextReject]_vars

\* the message of turn T is empty or only whitespace
EmptyMessage(T) == turn[T].n > 0 /\ turn[T].msg.chars \in {"none", "blank"}

\* turn T is about to look its user up and the session has none
NoUser(T) == pc[T] = "hm_user" /\ user_sessions[turn[T].sid] = None

\* this step rejects turn T: it adds one error event for it and nothing else,
\* the handler returns, and mood state and database stay as they are
Rejects(T) ==
    /\ turn'[T].done = {"error"}
    /\ pc'[T] = "idle" /\ pc'[AudioOf[T]] = pc[AudioOf[T]]
    /\ \E e \in outbox' :
          /\ e.event = "error" /\ e.n = turn'[T].n /\ e.sid = turn'[T].sid
          /\ outbox' = outbox \cup {e}
    /\ current_mood_state' = current_mood_state
    /\ conversations' = conversations
    /\ emotion_history' = emotion_history

\* C20: a send_message whose text is empty or whitespace, or whose session
\* has no logged-in user, is answered with an error event and nothing else:
\* no fusion, no mood update, no generation, no synthesis and no persistence
\* happen for it, in the rejecting step or afterwards.
C20_RejectedWithoutProcessing ==
    /\ [][\A T \in TurnThreads :
            /\ turn'[T].n # turn[T].n /\ EmptyMessage(T)' => Rejects(T)
            /\ NoUser(T) /\ pc'[T] # pc[T] => Rejects(T)]_vars
    /\ [](\A T \in TurnThreads :
            "error" \in turn[T].done =>
                /\ turn[T].done = {"error"}
                /\ turn[T].response = TurnInit.response
                /\ turn[T].audio = TurnInit.audio
                /\ \A e \in outbox : e.n = turn[T].n => e.event = "error")

\* a blank or empty message and a message sent before login have both been
\* rejected
C20_Witness ==
    /\ \E e \in outbox : e.event = "error" /\ e.text = "Empty message received"
    /\ \E T \in TurnThreads :
          /\ turn[T].done = {"error"}
          /\ turn[T].msg = MsgSad
          /\ \E e \in outbox : e.n = turn[T].n /\ e.text = "User not logged in"

-----------------------------------------------------------------------------
(* Failures of capture and classification, under SpecServer *)

\* the call of thread t has returned (neutral, 0.0) through return statement via
ReturnedNeutralZero(t, via) ==
    /\ result[t].kind = "value" /\ result[t].via = via
    /\ result[t].emotion = "neutral" /\ result[t].confidence = 0

\* C21: a call whose capture failed, and a call whose classifier raised,
\* returns (neutral, 0.0) and raises nothing: the only ways out of the
\* classification are a classified sample and that return, the cache and the
\* window are left alone, and the loop that made the call stays alive.
C21_FailuresBecomeNeutral ==
    [][\A t \in LoopThreads :
          /\ pc[t] = "cap_release" /\ ~loc[t].ret /\ pc'[t] # pc[t] =>
                /\ ReturnedNeutralZero(t, "nocapture")'
                /\ LoopAlive(t)' /\ pc'[t] = "idle"
                /\ UNCHANGED <<emotion_cache, recent_emotions>>
          /\ pc[t] = "classify" /\ pc'[t] # pc[t] =>
                \/ pc'[t] = "append" /\ loc'[t].classified
                \/ /\ ReturnedNeutralZero(t, "noclassify")'
                   /\ LoopAlive(t)' /\ pc'[t] = "idle"
                   /\ UNCHANGED <<emotion_cache, recent_emotions>>]_vars

\* the second call of the only loop failed to capture, and the loop is alive
C21_Witness ==
    \E t \in LoopThreads :
        /\ LoopAlive(t) /\ calls = 2
        /\ ReturnedNeutralZero(t, "nocapture")
        /\ \A u \in LoopThreads \ {t} : ~LoopAlive(u)


-----------------------------------------------------------------------------
(* emotion_calibration.EmotionCalibrator over the table emotion_calibration. *)
(* An embedding is a vector of two integers whose norm is an integer, so     *)
(* that every cosine similarity of the model is an exact multiple of 0.04.   *)
(* The database carries out the statements it is given.                      *)

Dot(a, b) == a[1] * b[1] + a[2] * b[2]

\* np.linalg.norm
Norm(a) == CHOOSE n \in 0..Dot(a, a) : n * n = Dot(a, a)

\* np.dot(vec1, vec2) / (norm(vec1) * norm(vec2)), as a confidence
cosine_similarity(vec1, vec2) ==
    (Pct(100) * Dot(vec1, vec2)) \div (Norm(vec1) * Norm(vec2))

RECURSIVE SumSeq(_)
SumSeq(q) == IF q = <<>> THEN 0 ELSE Head(q) + SumSeq(Tail(q))

\* np.mean
Mean(q) == SumSeq(q) \div Len(q)

\* SELECT ... WHERE user_id = ?
RowsOf(db, u) == SelectSeq(db, LAMBDA r : r.user_id = u)

\* the embeddings of one label among rows, in their order
EmbeddingsOf(rows, label) ==
    LET sel == SelectSeq(rows, LAMBDA r : r.emotion = label)
    IN  [i \in 1..Len(sel) |-> sel[i].embedding]

\* the keys of calibration_data in insertion order
RECURSIVE LabelsInOrder(_, _)
LabelsInOrder(rows, seen) ==
    IF rows = <<>> THEN <<>>
    ELSE IF Head(rows).emotion \in seen THEN LabelsInOrder(Tail(rows), seen)
    ELSE <<Head(rows).emotion>>
            \o LabelsInOrder(Tail(rows), seen \cup {Head(rows).emotion})

\* get_user_calibration: the dict label -> list of embeddings, as the
\* sequence of its items
get_user_calibration(db, u) ==
    LET rows == RowsOf(db, u)
        keys == LabelsInOrder(rows, {})
    IN  [i \in 1..Len(keys) |->
            [emotion |-> keys[i], embeddings |-> EmbeddingsOf(rows, keys[i])]]

\* has_calibration: SELECT COUNT(*) ... > 0
has_calibration(db, u) == Len(RowsOf(db, u)) > 0

\* avg_similarity of one item of calibration_data
AvgSimilarity(item, current_vector) ==
    Mean([i \in 1..Len(item.embeddings) |->
            cosine_similarity(current_vector, item.embeddings[i])])

\* the loop of match_emotion over calibration_data.items()
RECURSIVE BestMatch(_, _, _)
BestMatch(items, current_vector, best) ==
    IF items = <<>> THEN best
    ELSE BestMatch(Tail(items), current_vector,
                   IF AvgSimilarity(Head(items), current_vector) > best[2]
                   THEN <<Head(items).emotion,
                          AvgSimilarity(Head(items), current_vector)>>
                   ELSE best)

\* what DeepFace.represent makes of a frame: an embedding, nothing, or an
\* exception
NoFace == <<>>
Broken == <<0>>
IsEmbedding(e) == Len(e) = 2

match_emotionAtLeast(db, u, e) ==
    IF get_user_calibration(db, u) = <<>> \/ ~IsEmbedding(e) THEN <<None, 0>>
    ELSE LET best == BestMatch(get_user_calibration(db, u), e, <<None, 0>>)
         IN  IF best[2] >= Pct(MatchPct) THEN best ELSE <<None, best[2]>>

\* match_emotion(user_id, frame), e what represent makes of the frame
match_emotion(db, u, e) ==
    IF get_user_calibration(db, u) = <<>> \/ ~IsEmbedding(e) THEN <<None, 0>>
    ELSE LET best == BestMatch(get_user_calibration(db, u), e, <<None, 0>>)
         IN  IF best[2] > Pct(MatchPct) THEN best ELSE <<None, best[2]>>

save_calibration_sampleSharedUser(db, u, label, e) ==
    IF IsEmbedding(e)
    THEN Append(db, [user_id |-> "u1", emotion |-> label, embedding |-> e])
    ELSE db

\* the table after save_calibration_sample(user_id, emotion, frame_data)
save_calibration_sample(db, u, label, e) ==
    IF IsEmbedding(e)
    THEN Append(db, [user_id |-> u, emotion |-> label, embedding |-> e])
    ELSE db

clear_calibrationOneLabel(db, u) ==
    SelectSeq(db, LAMBDA r : r.user_id # u \/ r.emotion # "happy")

\* the table after clear_calibration(user_id): DELETE ... WHERE user_id = ?
clear_calibration(db, u) == SelectSeq(db, LAMBDA r : r.user_id # u)

MaxRows == 2

CalUsers == {"u1", "u2"}
CalLabels == {"happy", "sad"}
SampleVectors == {<<4, 3>>, <<3, 4>>, <<-1, 0>>}
CurrentVectors == {<<1, 0>>}

InitCalibration == InitDetector({}, 0) /\ InitMonitors /\ InitTurns

Called(fn, arguments, out) ==
    /\ applied' = [fn |-> fn, args |-> arguments, out |-> out]
    /\ UNCHANGED <<detectorVars, monitorVars, turnVars>>

SaveSample(u, label, e) ==
    /\ Len(emotion_calibration) < MaxRows
    /\ emotion_calibration' =
          save_calibration_sample(emotion_calibration, u, label, e)
    /\ Called("save_calibration_sample", <<u, label, e>>, <<IsEmbedding(e)>>)

Clear(u) ==
    /\ emotion_calibration' = clear_calibration(emotion_calibration, u)
    /\ Called("clear_calibration", <<u>>, <<>>)

ApplyHasCalibration(u) ==
    /\ Called("has_calibration", <<u>>,
              <<has_calibration(emotion_calibration, u)>>)
    /\ UNCHANGED emotion_calibration

ApplyGetUserCalibration(u) ==
    /\ Called("get_user_calibration", <<u>>,
              <<get_user_calibration(emotion_calibration, u)>>)
    /\ UNCHANGED emotion_calibration

ApplyMatchEmotion(u, e) ==
    /\ Called("match_emotion", <<u, e>>,
              match_emotion(emotion_calibration, u, e))
    /\ UNCHANGED emotion_calibration

NextCalibration ==
    \E u \in CalUsers :
        \/ \E label \in CalLabels, e \in SampleVectors \cup {NoFace, Broken} :
              SaveSample(u, label, e)
        \/ Clear(u)
        \/ ApplyHasCalibration(u)
        \/ ApplyGetUserCalibration(u)
        \/ \E e \in CurrentVectors \cup {NoFace, Broken} : ApplyMatchEmotion(u, e)

SpecCalibration == InitCalibration /\ [][NextCalibration]_vars

\* the labels user u has calibrated
CalibratedLabels(u) ==
    {emotion_calibration[i].emotion : i \in
        {j \in 1..Len(emotion_calibration) :
            emotion_calibration[j].user_id = u}}

\* the average similarity of vector e to the samples user u stored for label
AverageFor(u, label, e) ==
    LET idx == {i \in 1..Len(emotion_calibration) :
                   /\ emotion_calibration[i].user_id = u
                   /\ emotion_calibration[i].emotion = label}
        cos(i) == (Dot(e, emotion_calibration[i].embedding) * Pct(100))
                      \div (Norm(e) * Norm(emotion_calibration[i].embedding))
        RECURSIVE Total(_)
        Total(S) == IF S = {} THEN 0
                    ELSE LET i == CHOOSE i \in S : TRUE
                         IN  cos(i) + Total(S \ {i})
    IN  Total(idx) \div Cardinality(idx)

\* the largest of the averages of user u's labels
BestAverage(u, e) ==
    CHOOSE a \in {AverageFor(u, l, e) : l \in CalibratedLabels(u)} :
        \A l \in CalibratedLabels(u) : AverageFor(u, l, e) <= a

\* match_emotion was called for a calibrated user with a frame that has a face
Matched ==
    /\ applied.fn = "match_emotion"
    /\ IsEmbedding(applied.args[2])
    /\ CalibratedLabels(applied.args[1]) # {}

\* C22 as stated: the result is (a best label, best average) when the best
\* average exceeds 0.7, and (none, best average) for every best average of
\* 0.7 or less.
C22_NoneWithBestAverage ==
    Matched =>
        LET u == applied.args[1]
            e == applied.args[2]
        IN  IF BestAverage(u, e) > Pct(70)
            THEN /\ applied.out[1] \in CalibratedLabels(u)
                 /\ AverageFor(u, applied.out[1], e) = BestAverage(u, e)
                 /\ applied.out[2] = BestAverage(u, e)
            ELSE applied.out = <<None, BestAverage(u, e)>>

\* C22: the result is (a best label, best average) when the best average
\* exceeds 0.7; for a best average of 0.7 or less it is none with the best
\* average when that is positive and none with 0.0 when it is not.
C22_MatchAboveThreshold ==
    Matched =>
        LET u == applied.args[1]
            e == applied.args[2]
        IN  IF BestAverage(u, e) > Pct(70)
            THEN /\ applied.out[1] \in CalibratedLabels(u)
                 /\ AverageFor(u, applied.out[1], e) = BestAverage(u, e)
                 /\ applied.out[2] = BestAverage(u, e)
            ELSE applied.out =
                    <<None, IF BestAverage(u, e) > 0
                            THEN BestAverage(u, e) ELSE 0>>

\* two samples of one label average exactly 0.7 and the result is (none, 0.7)
C22_Witness ==
    /\ Matched
    /\ Len(RowsOf(emotion_calibration, applied.args[1])) = 2
    /\ BestAverage(applied.args[1], applied.args[2]) = Pct(70)
    /\ applied.out = <<None, Pct(70)>>

\* the rows of the table that belong to user u
RowsHeldBy(u) ==
    {i \in 1..Len(emotion_calibration) : emotion_calibration[i].user_id = u}

\* C23: after clear_calibration(u) user u has no calibration:
\* has_calibration(u) is false and get_user_calibration(u) is empty, and
\* clearing again leaves the table as it is, whatever was saved before.
C23_ClearIsIdempotent ==
    applied.fn = "clear_calibration" =>
        LET u == applied.args[1] IN
        /\ RowsHeldBy(u) = {}
        /\ has_calibration(emotion_calibration, u) = FALSE
        /\ get_user_calibration(emotion_calibration, u) = <<>>
        /\ clear_calibration(emotion_calibration, u) = emotion_calibration

\* after a clear for one user the table holds only the other user's sad sample
C23_Witness ==
    /\ applied.fn = "clear_calibration"
    /\ Len(emotion_calibration) = 1
    /\ emotion_calibration[1].user_id # applied.args[1]
    /\ emotion_calibration[1].emotion = "sad"

\* what the three queries give for user v on table db
Answers(db, v) ==
    <<has_calibration(db, v), get_user_calibration(db, v),
      [e \in CurrentVectors \cup {NoFace, Broken} |-> match_emotion(db, v, e)]>>

\* C24: a save that extracted an embedding appends exactly that row under
\* its user and label and returns true; a save that extracted none or failed
\* returns false and leaves the table as it is; and no save or clear for
\* user u changes what has_calibration, get_user_calibration or match_emotion
\* give for another user.
C24_OnlyTheNamedProfileChanges ==
    [][(applied'.fn \in {"save_calibration_sample", "clear_calibration"}
          /\ <<applied, emotion_calibration>>' # <<applied, emotion_calibration>>)
       => LET u == applied'.args[1] IN
          /\ \A v \in CalUsers \ {u} :
                Answers(emotion_calibration', v) = Answers(emotion_calibration, v)
          /\ applied'.fn = "save_calibration_sample" =>
                IF Len(applied'.args[3]) = 2
                THEN /\ applied'.out = <<TRUE>>
                     /\ Len(emotion_calibration') = Len(emotion_calibration) + 1
                     /\ SubSeq(emotion_calibration', 1, Len(emotion_calibration))
                           = emotion_calibration
                     /\ emotion_calibration'[Len(emotion_calibration')] =
                           [user_id |-> u, emotion |-> applied'.args[2],
                            embedding |-> applied'.args[3]]
                ELSE /\ applied'.out = <<FALSE>>
                     /\ emotion_calibration' = emotion_calibration]_vars

\* a sample was saved for one user while the other user had one stored
C24_Witness ==
    /\ applied.fn = "save_calibration_sample"
    /\ applied.out = <<TRUE>>
    /\ Len(emotion_calibration) = 2
    /\ emotion_calibration[1].user_id # applied.args[1]
    /\ emotion_calibration[2].user_id = applied.args[1]

-----------------------------------------------------------------------------
(* Turns of two users on two sessions, in any interleaving *)

IsolationSids == {"s1", "s2"}

InitIsolation ==
    /\ \E f \in TurnFrames : InitSampled(TurnFrames, 1, f)
    /\ InitServerUp
    /\ InitTurns

NextIsolation ==
    \/ \E sid \in IsolationSids : SessionOpen(sid)
    \/ Login("s1", "u1") \/ Login("s2", "u2")
    \/ \E T \in TurnThreads, sid \in IsolationSids, m \in TurnMessages :
          HM_Begin(T, sid, m)
    \/ \E T \in TurnThreads :
          GetCachedStep(T) \/ TurnStep(T, {"reply"}, {"file"})

SpecIsolation == InitIsolation /\ [][NextIsolation]_vars

\* C25: the conversation context a turn of user u fetches and hands to the
\* generation call holds only exchanges persisted under user id u, in any
\* interleaving of the turns of different users.
C25_ContextIsOwnTurns ==
    \A T \in TurnThreads :
        \A i \in 1..Len(turn[T].context) :
            /\ turn[T].context[i].user_id = turn[T].user
            /\ \E j \in 1..Len(conversations) :
                  conversations[j] = turn[T].context[i]

\* a turn of one user generated its reply with an empty context although the
\* other user's exchange was already persisted when it fetched the context
C25_Witness ==
    \E T \in TurnThreads :
        /\ "generation" \in turn[T].done
        /\ turn[T].context = <<>>
        /\ \E j \in 1..Len(conversations) :
              /\ conversations[j].user_id # turn[T].user
              /\ conversations[j].n < turn[T].n
        /\ "conv" \notin turn[T].done
        /\ \A U \in TurnThreads \ {T} : ~InProgress(U)


-----------------------------------------------------------------------------
(* The personalized path of detect_emotion_sync, under SpecPersonal *)

\* the match is a label with a confidence above 0.7
StrongMatch(m) == m.kind = "match" /\ m.emotion # None /\ m.confidence > Pct(70)

\* C26: a call that obtains a personalized match with a confidence above 0.7
\* returns that label and confidence and writes them to the cache, without
\* running the classifier and without touching the smoothing window; a call
\* whose match is absent, is not above 0.7 or raised goes on to the
\* classifier.
C26_StrongMatchUsedDirectly ==
    [][\A t \in Samplers :
          /\ pc[t] = "personal" /\ pc'[t] # pc[t] =>
                IF StrongMatch(loc'[t].match)
                THEN /\ pc'[t] = "pwrite_lock"
                     /\ recent_emotions' = recent_emotions
                ELSE pc'[t] = "classify"
          /\ pc[t] = "pwrite_lock" /\ pc'[t] # pc[t] =>
                pc'[t] = "pwrite" /\ recent_emotions' = recent_emotions
          /\ pc[t] = "pwrite" /\ pc'[t] # pc[t] =>
                /\ StrongMatch(loc[t].match)
                /\ result'[t].kind = "value"
                /\ result'[t].emotion = loc[t].match.emotion
                /\ result'[t].confidence = loc[t].match.confidence
                /\ emotion_cache'.emotion = loc[t].match.emotion
                /\ emotion_cache'.confidence = loc[t].match.confidence
                /\ emotion_cache'.timestamp = now
                /\ ~loc[t].classified
                /\ recent_emotions' = recent_emotions
                /\ history' = history]_vars

\* a call returned and cached the match (sad, 0.85) while the window still
\* held the samples of earlier calls, none of them sad
C26_Witness ==
    /\ result["S1"].kind = "value" /\ result["S1"].via = "personal"
    /\ result["S1"].emotion = "sad" /\ result["S1"].confidence = Pct(85)
    /\ emotion_cache.emotion = "sad" /\ emotion_cache.confidence = Pct(85)
    /\ Len(recent_emotions) > 0
    /\ \A i \in 1..Len(recent_emotions) : recent_emotions[i][1] # "sad"

-----------------------------------------------------------------------------
(* analyze_voice_tone called directly on texts given by their features: the *)
(* number of words of each lexicon, of exclamation marks, and the percentage *)
(* of upper-case characters                                                  *)

VoiceTexts ==
    {Msg("words", h, s, a, f, x, u) :
        h \in 0..2, s \in 0..1, a \in 0..1, f \in 0..1, x \in 0..3,
        u \in {0, 31, 51}}
    \cup {MsgBlank}

InitVoice == InitDetector({}, 0) /\ InitMonitors /\ InitTurns

ApplyAnalyzeVoiceTone(m) ==
    /\ applied' = [fn |-> "analyze_voice_tone", args |-> <<m>>,
                   out |-> analyze_voice_tone(m)]
    /\ UNCHANGED <<detectorVars, monitorVars, turnVars, emotion_calibration>>

NextVoice == \E m \in VoiceTexts : ApplyAnalyzeVoiceTone(m)

SpecVoice == InitVoice /\ [][NextVoice]_vars

Analyzed == applied.fn = "analyze_voice_tone"

\* the score of label k for text m, in tenths
ScoreOf(m, k) ==
    CASE k = "happy" ->
            m.happy * 10 + (IF m.happy > 0 THEN m.excl * 5 ELSE 0)
      [] k = "sad" -> m.sad * 10
      [] k = "angry" ->
            m.angry * 10
            + (IF m.happy > 0 THEN 0
               ELSE IF m.angry > 0 THEN m.excl * 5 ELSE m.excl * 2)
            + (IF m.caps > 30 THEN 10 ELSE 0)
      [] k = "fear" -> m.fear * 10
      [] OTHER -> 5

VoiceLabels == {"happy", "sad", "angry", "fear", "neutral"}

ScoreSum(m) ==
    ScoreOf(m, "happy") + ScoreOf(m, "sad") + ScoreOf(m, "angry")
    + ScoreOf(m, "fear") + ScoreOf(m, "neutral")

StrongIndicators(m) == m.excl > 1 \/ m.caps > 50

\* the confidence for winning score w over denominator d, in tenths both
ConfidenceOver(m, w, d) ==
    LET capped == IF Pct(100) * w >= Pct(80) * d THEN Pct(80)
                  ELSE (Pct(100) * w) \div d
    IN  IF StrongIndicators(m)
        THEN (IF capped + Pct(10) > Pct(90) THEN Pct(90) ELSE capped + Pct(10))
        ELSE capped

\* C27 as stated: the confidence is the winning score over the sum of all
\* scores, capped at 0.8, plus 0.1 capped at 0.9 with strong indicators.
C27_ScoreOverSum ==
    Analyzed =>
        LET m == applied.args[1] IN
        applied.out[2] =
            ConfidenceOver(m, ScoreOf(m, applied.out[1]), ScoreSum(m))

\* C27: the confidence is the winning score over the larger of 1 and the sum
\* of all scores, capped at 0.8, and raised by 0.1, capped at 0.9, exactly
\* when the text has more than one exclamation mark or more than 50% upper
\* case; so it is at most 0.8 without such indicators and at most 0.9 always.
C27_ScoreOverSumAtLeastOne ==
    Analyzed =>
        LET m == applied.args[1]
            d == IF ScoreSum(m) > 10 THEN ScoreSum(m) ELSE 10
        IN  /\ applied.out[2] = ConfidenceOver(m, ScoreOf(m, applied.out[1]), d)
            /\ ~StrongIndicators(m) => applied.out[2] <= Pct(80)
            /\ applied.out[2] <= Pct(90)

\* a text without any lexicon word or indicator got 0.5 / 1 = 0.5
C27_Witness ==
    /\ Analyzed
    /\ applied.args[1] = MsgHello
    /\ applied.out = <<"neutral", Pct(50)>>

NoLexiconWord(m) == m.happy = 0 /\ m.sad = 0 /\ m.angry = 0 /\ m.fear = 0

HighestScore(m, k) == \A j \in VoiceLabels : ScoreOf(m, j) <= ScoreOf(m, k)

\* C28 as stated: the label returned has the highest score, and it is neutral
\* for every text without a lexicon word, whatever its exclamation marks and
\* upper-case ratio.
C28_NeutralWithoutLexicon ==
    Analyzed =>
        /\ HighestScore(applied.args[1], applied.out[1])
        /\ NoLexiconWord(applied.args[1]) => applied.out[1] = "neutral"

\* C28: the label returned has the highest score; for a text without a
\* lexicon word it is neutral when the text has at most two exclamation
\* marks and at most 30% upper case, and angry otherwise.
C28_HighestScoreWins ==
    Analyzed =>
        LET m == applied.args[1] IN
        /\ HighestScore(m, applied.out[1])
        /\ NoLexiconWord(m) =>
              applied.out[1] =
                  IF m.excl <= 2 /\ m.caps <= 30 THEN "neutral" ELSE "angry"

\* a text without a lexicon word and with two exclamation marks got neutral
C28_Witness ==
    /\ Analyzed
    /\ NoLexiconWord(applied.args[1])
    /\ applied.args[1].chars = "words"
    /\ applied.args[1].excl = 2
    /\ applied.args[1].caps = 0
    /\ applied.out[1] = "neutral"

-----------------------------------------------------------------------------
\* the speed the tone of a persona is mapped to, in hundredths
SpeedOfTone(tone) ==
    CASE tone = "sad" -> 85
      [] tone = "calm" -> 90
      [] tone = "happy" -> 110
      [] OTHER -> 100

Synthesised(T) == "synthesis" \in turn[T].done

\* C29: the synthesis request of a turn carries the voice paired with the
\* persona of the turn's mood (cheerful alloy, low echo, neutral nova,
\* stressed shimmer, angry fable) and the speed mapped from the persona's tone.
C29_VoiceOfPersona ==
    \A T \in DOMAIN turn :
        Synthesised(T) =>
            /\ turn[T].speech.voice = PERSONALITIES_get(turn[T].mood).voice
            /\ turn[T].speech.speed = SpeedOfTone(turn[T].persona.tone)

-----------------------------------------------------------------------------
(* Two sessions whose turns fuse to different emotions: the face signal is  *)
(* below the threshold of combine_emotions, so the text decides             *)

RaceFrames == {[dom |-> "neutral", score |-> 35, neutral |-> 35, happy |-> 30]}

\* the send_message events: session s1 writes "i feel sad", s2 "hello there"
RaceSends == {<<"s1", MsgSad>>, <<"s2", MsgHello>>}

InitRace ==
    /\ \E f \in RaceFrames : InitSampled(RaceFrames, 1, f)
    /\ InitServerUp
    /\ InitTurns

NextRace ==
    \/ \E sid \in IsolationSids : SessionOpen(sid)
    \/ Login("s1", "u1") \/ Login("s2", "u2")
    \/ \E T \in TurnThreads, e \in RaceSends : HM_Begin(T, e[1], e[2])
    \/ \E T \in TurnThreads :
          GetCachedStep(T) \/ TurnStep(T, {"reply"}, {"file"})

SpecRace == InitRace /\ [][NextRace]_vars

\* the mood of a turn's own fused emotion and sentiment
OwnMood(emotion) == combine_moods(emotion, "neutral")

\* C30: in every interleaving of the turns of different sessions, the mood a
\* turn selects its persona with, keys its generation prompt with and
\* persists is combine_moods of that turn's own fused emotion and sentiment.
C30_MoodIsOwn ==
    /\ \A T \in TurnThreads :
          turn[T].mood # None =>
              /\ turn[T].mood = OwnMood(turn[T].emotion)
              /\ turn[T].persona = choose_personality(OwnMood(turn[T].emotion))
    /\ \A i \in 1..Len(conversations) :
          conversations[i].personality = OwnMood(conversations[i].emotion)
    /\ \A i \in 1..Len(emotion_history) :
          emotion_history[i].mood_state = OwnMood(emotion_history[i].emotion)

-----------------------------------------------------------------------------
(* One BackgroundEmotionMonitor and a caller of its start() and stop()      *)

\* start(): if not self.running: running = True, a new loop thread is started
Start(m) ==
    /\ monitors[m].created
    /\ IF monitors[m].running
       THEN UNCHANGED <<monitors, loopOf>>
       ELSE Spawn(m)
    /\ UNCHANGED <<detectorVars, app_monitor, ws_monitor, turnVars, applied,
                   emotion_calibration>>

\* stop(): self.running = False; self.thread.join(timeout=2).  The join returns
\* when the loop thread has ended or after two seconds; the loop sleeps
\* self.interval (5.0 by default) after each call, so a stop() called at the
\* start of a sleep returns while the thread is alive.  Nothing else is changed.
Stop(m) ==
    /\ monitors[m].created
    /\ monitors' = [monitors EXCEPT ![m].running = FALSE]
    /\ UNCHANGED <<detectorVars, app_monitor, ws_monitor, loopOf, turnVars,
                   applied, emotion_calibration>>

\* monitor = BackgroundEmotionMonitor(): created, not started
InitLifecycle ==
    /\ InitDetector(TurnFrames, MaxCalls)
    /\ app_monitor = None
    /\ ws_monitor = None
    /\ monitors = [m \in MonitorIds |->
                     IF m = MonitorPool[1] THEN NewMonitor
                     ELSE [created |-> FALSE, running |-> FALSE,
                           thread |-> None, user_id |-> None]]
    /\ loopOf = [t \in Threads |-> None]
    /\ InitTurns

NextLifecycle ==
    \/ Start(MonitorPool[1])
    \/ Stop(MonitorPool[1])
    \/ \E t \in LoopThreads :
          \/ LoopIterate(t)
          \/ CapOpen(t) \/ CapRead(t) \/ CapRelease(t)
          \/ Classify(t) \/ AppendSample(t) \/ IterStart(t) \/ IterEnd(t)
          \/ WriteAcquire(t) \/ WriteCache(t)

SpecLifecycle == InitLifecycle /\ [][NextLifecycle]_vars

\* a loop thread that is inside a sampling call
Sampling(t) == loopOf[t] # None /\ pc[t] \notin {"idle", "exited"}

\* C31: of one monitor, at most one loop thread is sampling at any time,
\* whatever the sequence of start() and stop() calls.
C31_OneLoopPerMonitor ==
    \A m \in MonitorIds :
        Cardinality({t \in LoopThreads : loopOf[t] = m /\ Sampling(t)}) <= 1

-----------------------------------------------------------------------------
(* The monitor loops of the server, each thread scheduled again and again   *)

\* the steps of loop thread t
LoopStep(t) ==
    \/ LoopIterate(t)
    \/ CapOpen(t) \/ CapRead(t) \/ CapRelease(t)
    \/ Classify(t) \/ AppendSample(t) \/ IterStart(t) \/ IterEnd(t)
    \/ WriteAcquire(t) \/ WriteCache(t)

\* the two monitors of the server are running, nothing was sampled yet
InitPerpetual == InitDetector(TurnFrames, MaxCalls) /\ InitServerUp /\ InitTurns

NextPerpetual == \E t \in LoopThreads : LoopStep(t)

\* the threads are daemon threads of the interpreter: each is given the
\* processor again and again, and time.sleep(self.interval) ends
SpecPerpetual ==
    InitPerpetual /\ [][NextPerpetual]_vars
    /\ \A t \in LoopThreads : WF_vars(LoopStep(t))

\* the call of t has ended without a sample: the capture failed, the
\* classifier raised, or an exception left the call
AttemptFailed(t) ==
    /\ pc[t] = "idle"
    /\ \/ result[t].kind = "raised"
       \/ result[t].kind = "value" /\ result[t].via \in {"nocapture", "noclassify"}

\* C32: a loop thread of a running monitor never ends, and after each failed
\* sampling attempt it makes another one with bypass_cache=True, which goes to
\* the camera whatever the age of the cache entry (as long as the number of
\* calls is below the bound of the model).
C32_LoopIsPerpetual ==
    /\ [][\A t \in LoopThreads : LoopAlive(t) => LoopAlive(t)']_vars
    /\ \A t \in LoopThreads :
          (LoopAlive(t) /\ AttemptFailed(t))
              ~> \/ pc[t] = "capture" /\ args[t].bypass
                 \/ calls = callLimit

\* a loop is in the second call of the server, at the camera, and no sample
\* was ever appended: the other loop has not sampled, so its own first attempt
\* failed
C32_Witness ==
    \E t \in LoopThreads :
        /\ LoopAlive(t) /\ calls = 2 /\ history = <<>>
        /\ pc[t] = "capture" /\ args[t].bypass
        /\ \A u \in LoopThreads \ {t} :
              pc[u] = "idle" /\ result[u] = NoResult

-----------------------------------------------------------------------------
\* the statements of detect_emotion_sync between the cache check and the
\* append to the window: capture, personalized match, classification
BeforeAppend == {"capture", "cap_read", "cap_release", "personal", "classify"}

\* the pair get_cached_emotion returns for cache entry c
EntryPair(c) == <<c.emotion, c.confidence>>

\* C33: no step of a sampling attempt up to its classification, and so none of
\* an attempt that ends in a failed capture or a classifier exception, changes
\* the cache entry or the smoothing window; the (neutral, 0.0) of the failure
\* is not written, and get_cached_emotion returns the entry that is in the
\* cache, the last one written.
C33_FailureLeavesCacheAlone ==
    [][/\ \A t \in Samplers :
             (/\ pc[t] \in BeforeAppend /\ pc'[t] # pc[t]
              /\ pc'[t] \in BeforeAppend \cup {"append", "idle"}
              /\ pc'[t] = "idle" => result'[t].via \in {"nocapture", "noclassify"})
             => UNCHANGED <<emotion_cache, recent_emotions, cacheWrites, written>>
       /\ \A r \in Readers :
             pc[r] = "peek_confidence" /\ pc'[r] = "idle"
             => /\ <<result'[r].emotion, result'[r].confidence>>
                   = EntryPair(emotion_cache)
                /\ emotion_cache \in written
                /\ UNCHANGED emotion_cache]_vars

\* the only sampler that ever ran wrote one entry and its last attempt failed;
\* the reader got the written entry, not (neutral, 0.0)
C33_Witness ==
    /\ \E t \in Samplers :
          /\ pc[t] = "idle" /\ result[t].kind = "value"
          /\ result[t].via \in {"nocapture", "noclassify"}
          /\ \A u \in Samplers \ {t} : pc[u] = "idle" /\ result[u] = NoResult
    /\ cacheWrites = 1 /\ calls = 2
    /\ emotion_cache.emotion # "neutral"
    /\ \E r \in Readers :
          /\ result[r].kind = "value" /\ result[r].via = "peek"
          /\ <<result[r].emotion, result[r].confidence>>
                = EntryPair(emotion_cache)

-----------------------------------------------------------------------------
(* Persistence of turns: two sessions send messages, the first without    *)
(* having logged in; the second stops its responses at any moment          *)

\* both sessions have connected, the second has logged in as u2, nothing was
\* sent yet
InitPersist ==
    /\ \E f \in TurnFrames : InitSampled(TurnFrames, 1, f)
    /\ InitServerUp
    /\ connected = [s \in Sids |-> "open"]
    /\ user_sessions = [s \in Sids |-> IF s = "s2" THEN "u2" ELSE None]
    /\ processing_flags = [s \in Sids |-> Absent]
    /\ current_mood_state = MoodInit
    /\ turn = [T \in TurnThreads |-> TurnInit]
    /\ rest = [G \in RestThreads |-> RestInit]
    /\ conversations = <<>>
    /\ emotion_history = <<>>
    /\ outbox = {}
    /\ turns = 0
    /\ applied = NoCall
    /\ emotion_calibration = <<>>

NextPersist ==
    \/ StopResponse("s2")
    \/ \E T \in TurnThreads, sid \in IsolationSids, m \in TurnMessages :
          HM_Begin(T, sid, m)
    \/ \E T \in TurnThreads :
          GetCachedStep(T) \/ TurnStep(T, {"reply"}, {"file"})

SpecPersist == InitPersist /\ [][NextPersist]_vars

\* the rows of table that turn number n persisted
RowsOfTurn(table, n) == {i \in 1..Len(table) : table[i].n = n}

\* message_response was emitted for turn n, by a session bound to user u
Responded(n, u) ==
    \E e \in outbox :
        /\ e.event = "message_response" /\ e.n = n
        /\ user_sessions[e.sid] = u

\* every row is of a turn that emitted message_response, under the user of the
\* turn's session, and no turn has two rows in a table
PersistedOnceAfterResponse ==
    /\ \A i \in 1..Len(conversations) :
          /\ Responded(conversations[i].n, conversations[i].user_id)
          /\ RowsOfTurn(conversations, conversations[i].n) = {i}
    /\ \A i \in 1..Len(emotion_history) :
          /\ Responded(emotion_history[i].n, emotion_history[i].user_id)
          /\ RowsOfTurn(emotion_history, emotion_history[i].n) = {i}

PersistedNothing(T) ==
    /\ RowsOfTurn(conversations, turn[T].n) = {}
    /\ RowsOfTurn(emotion_history, turn[T].n) = {}

\* C34 as stated: rows are persisted once, after message_response, under the
\* session's user, and a turn that was rejected or stopped at any cancellation
\* checkpoint has persisted nothing.
C34_StoppedTurnPersistsNothing ==
    /\ PersistedOnceAfterResponse
    /\ \A T \in TurnThreads :
          "error" \in turn[T].done \/ turn[T].stoppedAt > 0
              => PersistedNothing(T)

\* C34: rows are persisted once, after message_response, under the session's
\* user; a turn that was rejected, or that stopped at one of the three
\* checkpoints of the handler, has persisted nothing.  (The checkpoints of the
\* audio task come after message_response and do not hold back the rows.)
C34_PersistedAfterResponse ==
    /\ PersistedOnceAfterResponse
    /\ \A T \in TurnThreads :
          "error" \in turn[T].done \/ turn[T].stoppedAt \in 1..3
              => PersistedNothing(T)

\* a turn was rejected and persisted nothing; the other turn was answered,
\* persisted both rows under its user and had its audio cancelled
C34_Witness ==
    \E T, U \in TurnThreads :
        /\ "error" \in turn[T].done /\ turn[T].sid = "s1"
        /\ PersistedNothing(T)
        /\ Len(conversations) = 1 /\ Len(emotion_history) = 1
        /\ turn[U].stoppedAt = 4 /\ turn[U].user = "u2"
        /\ \E i \in RowsOfTurn(conversations, turn[U].n) :
              conversations[i].user_id = "u2"
        /\ \E i \in RowsOfTurn(emotion_history, turn[U].n) :
              emotion_history[i].user_id = "u2"

-----------------------------------------------------------------------------
(* update_mood called several times in a row, as consecutive turns call it: *)
(* handle_message passes the fused emotion and the sentiment "neutral"      *)

MaxUpdates == 3

TurnEmotions == {"happy", "sad", "neutral", "angry"}

\* the sequences of n fused emotions
RECURSIVE EmotionSeqs(_)
EmotionSeqs(n) ==
    IF n = 0 THEN {<<>>}
    ELSE {Append(s, e) : s \in EmotionSeqs(n - 1), e \in TurnEmotions}

\* what the calls update_mood(e, "neutral"), e in emotions, return one after
\* the other, starting from state
RECURSIVE MoodTrace(_, _)
MoodTrace(state, emotions) ==
    IF emotions = <<>> THEN <<>>
    ELSE <<[state |-> update_mood(state, Head(emotions), "neutral"),
            changed |-> mood_changed(state, Head(emotions), "neutral")]>>
         \o MoodTrace(update_mood(state, Head(emotions), "neutral"),
                      Tail(emotions))

ApplyUpdateMoods(emotions) ==
    /\ applied' = [fn |-> "update_moods", args |-> emotions,
                   out |-> MoodTrace(current_mood_state, emotions)]
    /\ current_mood_state' =
          MoodTrace(current_mood_state, emotions)[Len(emotions)].state
    /\ UNCHANGED <<detectorVars, monitorVars, connected, user_sessions,
                   processing_flags, turn, rest, conversations,
                   emotion_history, outbox, turns, emotion_calibration>>

InitOscillation == InitDetector({}, 0) /\ InitMonitors /\ InitTurns

NextOscillation ==
    \E emotions \in EmotionSeqs(MaxUpdates) : ApplyUpdateMoods(emotions)

SpecOscillation == InitOscillation /\ [][NextOscillation]_vars

Opposite(a, b) == {a, b} = {"cheerful", "low"}

\* C35: mood changes are not damped: a call of update_mood whose inputs give
\* the mood opposite to the one the previous call stored (cheerful against
\* low) stores that mood and returns changed = TRUE, every time, so the stored
\* mood can alternate between cheerful and low on every call.
C35_NoDamping ==
    applied.fn = "update_moods" =>
        \A i \in 2..Len(applied.out) :
            Opposite(applied.out[i - 1].state.combined_mood,
                     RuleMood(applied.args[i], "neutral"))
            => /\ applied.out[i].changed
               /\ applied.out[i].state.combined_mood
                     = RuleMood(applied.args[i], "neutral")

\* three consecutive calls stored cheerful, low, cheerful, and each returned
\* changed = TRUE
C35_Witness ==
    /\ applied.fn = "update_moods"
    /\ applied.args = <<"happy", "sad", "happy">>
    /\ \A i \in 1..3 : applied.out[i].changed
    /\ applied.out[1].state.combined_mood = "cheerful"
    /\ applied.out[2].state.combined_mood = "low"
    /\ applied.out[3].state.combined_mood = "cheerful"
    /\ current_mood_state.combined_mood = "cheerful"


-----------------------------------------------------------------------------
(* Turns of both orchestrators, handle_message and get_roomie_response,     *)
(* over faces and texts that are angry, happy or neutral                    *)

StoredFrames ==
    {[dom |-> "angry", score |-> 90, neutral |-> 5, happy |-> 2],
     [dom |-> "happy", score |-> 90, neutral |-> 5, happy |-> 90],
     [dom |-> "neutral", score |-> 35, neutral |-> 35, happy |-> 30]}

MsgAngry == Msg("words", 0, 0, 1, 0, 0, 0)        \* "i am furious"

StoredMessages == {MsgAngry, MsgHello}

\* session s1 has connected and logged in as u1, nothing was sent yet
InitStored ==
    /\ \E f \in StoredFrames : InitSampled(StoredFrames, 1, f)
    /\ InitServerUp
    /\ connected = [s \in Sids |-> IF s = "s1" THEN "open" ELSE "never"]
    /\ user_sessions = [s \in Sids |-> IF s = "s1" THEN "u1" ELSE None]
    /\ processing_flags = [s \in Sids |-> Absent]
    /\ current_mood_state = MoodInit
    /\ turn = [T \in TurnThreads |-> TurnInit]
    /\ rest = [G \in RestThreads |-> RestInit]
    /\ conversations = <<>>
    /\ emotion_history = <<>>
    /\ outbox = {}
    /\ turns = 0
    /\ applied = NoCall
    /\ emotion_calibration = <<>>

NextStored ==
    \/ \E m \in StoredMessages : HM_Begin(TurnPool[1], "s1", m)
    \/ GetCachedStep(TurnPool[1]) \/ TurnStep(TurnPool[1], {"reply"}, {"file"})
    \/ \E G \in RestThreads, m \in StoredMessages : GR_Begin(G, m)
    \/ \E G \in RestThreads : GetCachedStep(G) \/ RestStep(G)

SpecStored == InitStored /\ [][NextStored]_vars

BasicMoods == {"cheerful", "low", "neutral"}

ExtendedPersonas ==
    {PERSONALITY_PROFILES["stressed"], PERSONALITY_PROFILES["angry"]}

\* C36: in every reachable state the stored combined_mood is cheerful, low or
\* neutral, and no turn of handle_message or get_roomie_response has selected
\* the stressed or the angry persona.
C36_MoodIsBasic ==
    /\ current_mood_state.combined_mood \in BasicMoods
    /\ \A T \in TurnThreads :
          /\ turn[T].mood \in BasicMoods \cup {None}
          /\ turn[T].persona \notin ExtendedPersonas
    /\ \A G \in RestThreads :
          /\ rest[G].mood \in BasicMoods \cup {None}
          /\ rest[G].persona \notin ExtendedPersonas

\* a turn whose fused emotion is angry selected the persona of the low mood
C36_Witness ==
    \E T \in TurnThreads :
        /\ turn[T].emotion = "angry"
        /\ turn[T].mood = "low"
        /\ turn[T].persona = PERSONALITY_PROFILES["low"]
        /\ current_mood_state.combined_mood = "low"


-----------------------------------------------------------------------------
(* What update_mood leaves stored of its inputs, under SpecMood             *)

\* C37: after every call update_mood(f, v) the stored mood state has
\* face_emotion = f and voice_sentiment = v, whether or not the combined mood
\* changed.
C37_StoresLatestInputs ==
    applied.fn = "update_mood" =>
        /\ current_mood_state.face_emotion = applied.args[1]
        /\ current_mood_state.voice_sentiment = applied.args[2]


-----------------------------------------------------------------------------
(* A logged-in session that sends messages one after the other, may send    *)
(* stop_response and disconnects at any moment, a turn in flight or not     *)

\* session s1 has connected and logged in as u1, nothing was sent yet
InitOrphan ==
    /\ \E f \in TurnFrames : InitSampled(TurnFrames, 1, f)
    /\ InitServerUp
    /\ connected = [s \in Sids |-> IF s = "s1" THEN "open" ELSE "never"]
    /\ user_sessions = [s \in Sids |-> IF s = "s1" THEN "u1" ELSE None]
    /\ processing_flags = [s \in Sids |-> Absent]
    /\ current_mood_state = MoodInit
    /\ turn = [T \in TurnThreads |-> TurnInit]
    /\ rest = [G \in RestThreads |-> RestInit]
    /\ conversations = <<>>
    /\ emotion_history = <<>>
    /\ outbox = {}
    /\ turns = 0
    /\ applied = NoCall
    /\ emotion_calibration = <<>>

NextOrphan ==
    \/ StopResponse("s1")
    \/ Disconnect("s1")
    \/ \E m \in TurnMessages : HM_Begin(TurnPool[1], "s1", m)
    \/ GetCachedStep(TurnPool[1]) \/ TurnStep(TurnPool[1], {"reply"}, {"file"})

SpecOrphan == InitOrphan /\ [][NextOrphan]_vars

\* the session of turn T has disconnected
Orphaned(T) == turn[T].n > 0 /\ connected[turn[T].sid] = "closed"

\* turn T has returned, and so has its audio task, and no checkpoint read its
\* flag as False
EndedUncancelled(T) == ~InProgress(T) /\ turn[T].stoppedAt = 0

\* a turn in flight when its session disconnects is not cancelled and goes on
\* through synthesis and the audio_ready emission, wherever in the handler the
\* disconnect found it
C38_DisconnectNeverEndsTurn ==
    \A T \in TurnThreads :
        Orphaned(T) /\ EndedUncancelled(T) =>
            {"synthesis", "audio_ready"} \subseteq turn[T].done

\* C38: a disconnect deletes the session's flag and user binding, and a
\* checkpoint reads a missing flag as keep processing: no checkpoint cancels a
\* turn whose session has disconnected, and such a turn, once it has read its
\* user binding, goes on through speech synthesis and the audio_ready
\* emission.
C38_MissingFlagKeepsProcessing ==
    /\ [](\A sid \in Sids :
            connected[sid] = "closed" =>
                /\ processing_flags[sid] = Absent
                /\ user_sessions[sid] = None)
    /\ [][\A T \in TurnThreads :
            Orphaned(T) /\ turn'[T].n = turn[T].n =>
                turn'[T].stoppedAt = turn[T].stoppedAt]_vars
    /\ [](\A T \in TurnThreads :
            Orphaned(T) /\ EndedUncancelled(T) /\ turn[T].user # None =>
                {"synthesis", "audio_ready"} \subseteq turn[T].done)

\* the only turn of a session was asked to stop, the session disconnected
\* before the turn's next checkpoint, and the turn emitted its response and
\* its audio after that
C38_Witness ==
    \E T \in TurnThreads :
        /\ turns = 1
        /\ Orphaned(T) /\ EndedUncancelled(T)
        /\ turn[T].stopSeen
        /\ turn[T].late = {"message_response", "audio_ready"}
        /\ "synthesis" \in turn[T].done


-----------------------------------------------------------------------------
(* The server from its start: app.py is imported, a client connects and     *)
(* logs in, the monitor loops sample and a turn reads the cache.  After the *)
(* capture a call goes to the personalized match when its user_id is set    *)
(* (CapRelease); a loop that got there would stay at that statement.        *)

InitGeneric == InitDetector(TurnFrames, MaxCalls) /\ InitMonitors /\ InitTurns

NextGeneric ==
    \/ AppImport
    \/ Connect("H1") \/ ConnAssign("H1") \/ ConnStart("H1") \/ StartSpawn("H1")
    \/ SessionOpen("s1") \/ Login("s1", "u1")
    \/ \E t \in LoopThreads :
          \/ LoopIterate(t)
          \/ CapOpen(t) \/ CapRead(t) \/ CapRelease(t)
          \/ Classify(t) \/ AppendSample(t) \/ IterStart(t) \/ IterEnd(t)
          \/ WriteAcquire(t) \/ WriteCache(t)
    \/ \E m \in TurnMessages : HM_Begin(TurnPool[1], "s1", m)
    \/ GetCachedStep(TurnPool[1]) \/ TurnStep(TurnPool[1], {"reply"}, {"file"})

SpecGeneric == InitGeneric /\ [][NextGeneric]_vars

\* the statements of the personalized match and of its cache write
PersonalPcs == {"personal", "pwrite_lock", "pwrite"}

\* the label and confidence of a cache entry
EntrySignal(c) == <<c.emotion, c.confidence>>

\* C39: both monitors of the server are constructed without a user id, every
\* call of a sampling loop has user_id = None and never attempts the
\* personalized match, no cache entry was written by the personalized path,
\* and the face signal of every turn is a cache entry written by the
\* classifier and smoothing path (or the entry the module starts with).
C39_LoopsSampleWithoutUser ==
    /\ \A m \in MonitorIds : monitors[m].user_id = None
    /\ \A t \in LoopThreads :
          /\ args[t].uid = None
          /\ pc[t] \notin PersonalPcs
          /\ loc[t].match = NoMatch
          /\ result[t].kind = "value" => result[t].via # "personal"
    /\ \A i \in 1..Len(callLog) : callLog[i].classified
    /\ \A T \in TurnThreads :
          "fusion" \in turn[T].done =>
              \E c \in written :
                  /\ turn[T].face = EntrySignal(c)
                  /\ c = CacheInit \/ c = SampledEntry(CHOOSE f \in frames : TRUE)

\* both monitors run, a loop has sampled and written the cache, and the turn
\* of the logged-in user u1 has read that entry as its face signal
C39_Witness ==
    /\ app_monitor # None /\ ws_monitor # None
    /\ monitors[app_monitor].running /\ monitors[ws_monitor].running
    /\ cacheWrites > 0
    /\ \E T \in TurnThreads :
          /\ turn[T].user = "u1"
          /\ "fusion" \in turn[T].done
          /\ turn[T].face = EntrySignal(emotion_cache)
          /\ emotion_cache # CacheInit


-----------------------------------------------------------------------------
(* What get_roomie_response returns, under SpecFace.  Its generation and    *)
(* speech calls are never reached, so neither of them fails.                *)

\* C40: get_roomie_response runs cached emotion, mood update and persona
\* selection in order and, no generation or speech call having failed, returns
\* a generated reply with its audio path: never the fixed apology with no
\* audio.
C40_ReplyWhenServicesSucceed ==
    \A G \in RestThreads :
        rest[G].status = "200" =>
            /\ rest[G].face[1] # None
            /\ rest[G].mood # None
            /\ rest[G].persona # NoPersona
            /\ rest[G].response # RoomieApology
            /\ rest[G].audio # None
====
